---- MODULE Spec2Model ----
(***************************************************************************)
(* Model of the cosmk container/SDK session machinery of clipos/toolkit:   *)
(*   cosmk/fs.py          LoopDevice, SquashfsMount, TmpfsMount,           *)
(*                        OverlayfsMount, loop_devices, open/close_loop    *)
(*   cosmk/mount.py       Mountpoint, mount, umount                        *)
(*   cosmk/container.py   Container.session, ContainerSession.run and      *)
(*                        snapshot, Container._runc_config                 *)
(*   cosmk/privileges.py  init_lower_privileges, ElevatedPrivileges        *)
(*   clipostoolkit/cosmk/sdk.py  Sdk.session, Sdk.bootstrap                *)
(*                                                                         *)
(* One step of the model is one external command or one system call of the *)
(* code (losetup, mount, umount, mkdir, runc, rmtree, setres[ug]id).  The  *)
(* Python "with" nesting is the stack ctx: entering a context manager      *)
(* pushes it, leaving the block (normally or by an exception) pops the     *)
(* managers one by one and runs their __exit__.  An exception raised by an *)
(* __exit__ replaces the exception in flight, as in Python.                *)
(***************************************************************************)
EXTENDS Integers, Sequences, FiniteSets, TLC

\* ---------------------------------------------------------------- bounds
\* Number of loop device nodes (/dev/loop1 .. /dev/loopNDev) of the host.
NDev == 3
\* Largest number of configured prelude commands and of postlude commands.
MaxCmds == 2
\* Largest number of run calls the caller issues in the session body.
MaxBody == 2
\* Largest number of runs of the mksquashfs utility in one session.
MaxSnap == 1
\* Largest number of mountpoints a caller adds to a Container.
MaxMounts == 2
\* Largest number of device bindings of a Container.
MaxBindings == 2

\* ------------------------------------------------------------- constants
\* umask set while privileges are elevated (0o022).
RootUmask == 18

None == 0
Devices == 1..NDev

\* Real (symlink-resolved) file behind a path.  "imglink" is a symbolic link
\* to "img": os.path.abspath keeps the link, the kernel reports the target.
RealPath(p) == IF p = "imglink" THEN "img" ELSE p

VARIABLES
    pc,            \* position of the control flow
    ctx,           \* stack of entered context managers (innermost last)
    cfg,           \* the configuration of the run (Container / Sdk arguments)
    loops,         \* kernel loop table: device -> backing file, or "free"
    mounts,        \* kernel mount table: [source, target, type, options]
    bundle,        \* TRUE while the bundle directory exists
    device,        \* LoopDevice.device of the session's binding (None = 0)
    ownDev,        \* the node the session's own losetup -f call attached
    exc,           \* the exception in flight ("none" when there is none)
    orig,          \* the first exception raised in this execution
    log,           \* acquisitions and release attempts, in order
    cmds,          \* commands handed to the launcher, in order
    priv,          \* process identity: r/e/s uid and gid, umask
    current_mask,  \* ElevatedPrivileges.current_mask
    assembled,     \* the ContainerSession was handed to the caller
    ovlopts,       \* overlayfs_mount_options
    resolv,        \* /etc/resolv.conf was copied into the rootfs
    listing,       \* the list returned by loop_devices(), while it is scanned
    entered,       \* Sdk.session handed the SdkSession to the caller
    loops0,        \* the loop table before the session started
    upper,         \* files in the overlay upper directory (on the tmpfs)
    outfile,       \* the file at the output path given to snapshot
    squashed,      \* number of runs of the mksquashfs utility by snapshot
    config_json,   \* the runtime specification last written to config.json
    launches,      \* the launcher invocations: command line, config.json read
    entry,         \* the Mountpoint / ContainerMountpoint / OverlayfsMount built
    issued         \* the command lines of the mount commands that were run

vars == <<pc, ctx, cfg, loops, mounts, bundle, device, ownDev, exc, orig, log,
          cmds, priv, current_mask, assembled, ovlopts, resolv, listing,
          entered, loops0, upper, outfile, squashed, config_json, launches,
          entry, issued>>

\* ---------------------------------------------------------------- helpers
Top(s) == s[Len(s)]
Pop(s) == SubSeq(s, 1, Len(s) - 1)
Reverse(s) == [i \in 1..Len(s) |-> s[Len(s) + 1 - i]]
MinOf(S) == CHOOSE x \in S : \A y \in S : x <= y

Acq(res, dev) == [op |-> "acq", res |-> res, dev |-> dev, ok |-> TRUE]
Rel(res, dev, ok) == [op |-> "rel", res |-> res, dev |-> dev, ok |-> ok]

\* raise e: e becomes the exception in flight; an exception raised while
\* another one is being handled replaces it (implicit chaining only).
Raise(e) ==
    /\ exc' = e
    /\ orig' = IF orig = "none" THEN e ELSE orig

NoRaise == UNCHANGED <<exc, orig>>

\* str.join: the texts of a list, with sep between them.  A text is a
\* sequence of pieces.
RECURSIVE JoinText(_, _)
JoinText(texts, sep) ==
    IF texts = <<>> THEN <<>>
    ELSE IF Len(texts) = 1 THEN texts[1]
    ELSE texts[1] \o <<sep>> \o JoinText(Tail(texts), sep)

\* All orders in which the used loop devices can be listed.
RECURSIVE Orders(_)
Orders(S) ==
    IF S = {} THEN {<<>>}
    ELSE UNION {{<<d>> \o t : t \in Orders(S \ {d})} : d \in S}

\* loop_devices(): one (device, backfile) entry per attached loop device, in
\* the order losetup prints them.
loop_devices(table) ==
    {[i \in 1..Len(o) |-> [device |-> o[i], backfile |-> table[o[i]]]] :
        o \in Orders({d \in Devices : table[d] # "free"})}

\* Variant of the scan without reversed(): the first listed entry whose
\* backfile matches is taken.
ScanLoopDevicesForward(lst, backfile) ==
    LET hits == {i \in 1..Len(lst) : lst[i].backfile = backfile}
    IN  IF hits = {} THEN None ELSE lst[MinOf(hits)].device

\* The for/else of LoopDevice.__enter__: the first entry of the reversed
\* listing whose backfile equals self.backfile; None when there is none.
ScanLoopDevices(lst, backfile) ==
    LET r == Reverse(lst)
        hits == {i \in 1..Len(r) : r[i].backfile = backfile}
    IN  IF hits = {} THEN None ELSE r[MinOf(hits)].device

\* Files are named by a kind and a number.  The base squashfs image holds
\* the file "base"; a command that creates a file creates a "marker".
File(name, n) == [name |-> name, n |-> n]
BaseImage == {File("base", 0)}

\* The output path of snapshot: no file, the file that was there before the
\* session, the truncated output of a failed mksquashfs, or an image.
Absent == [kind |-> "absent", contents |-> {}]
OldFile == [kind |-> "old", contents |-> {}]
Partial == [kind |-> "partial", contents |-> {}]
Image(files) == [kind |-> "image", contents |-> files]

\* No config.json has been written yet.
NoConfig == [args |-> "none"]

\* No mount object has been constructed.
NoEntry == [kind |-> "none"]

\* The three mount points of a session, inside its bundle directory.
SquashTarget == IF cfg.readonly_root THEN "rootfs" ELSE "lower"

SessionMounts == {m \in mounts : m.target \in {"rootfs", "lower", "tmpfs"}}

\* Container.__init__: the capabilities every Container starts with.
DefaultCapabilities ==
    {"CAP_CHOWN", "CAP_DAC_OVERRIDE", "CAP_FSETID", "CAP_FOWNER", "CAP_MKNOD",
     "CAP_SETGID", "CAP_SETUID", "CAP_SETFCAP", "CAP_SETPCAP",
     "CAP_SYS_CHROOT", "CAP_KILL", "CAP_AUDIT_WRITE"}

\* ------------------------------------------------------------------- Init
\* A bare Container.session: any readonly_root, no prelude and no postlude.
ContainerConfigs ==
    [sdk : {FALSE}, readonly_root : BOOLEAN, shared_host_netns : BOOLEAN,
     rootfs : {"img", "imglink"}, prelude : {0}, postlude : {0},
     additional_mountpoints : {<<>>}, device_bindings : {<<>>},
     capabilities : {DefaultCapabilities}, runc_bin : {"runc"},
     host_resolv_conf : BOOLEAN,
     body_commands : {{"true"}}, output_exists : {FALSE},
     bootstrap : {FALSE}]

\* Sdk.session: its Container is built with the default readonly_root.
SdkConfigs ==
    [sdk : {TRUE}, readonly_root : {FALSE}, shared_host_netns : BOOLEAN,
     rootfs : {"img"}, prelude : 0..MaxCmds, postlude : 0..MaxCmds,
     additional_mountpoints : {<<>>}, device_bindings : {<<>>},
     capabilities : {DefaultCapabilities},
     runc_bin : {"runc", "docker-runc"}, host_resolv_conf : {TRUE},
     body_commands : {{"touch"}}, output_exists : {FALSE},
     bootstrap : {FALSE}]

InitWith(configs, tables) ==
    /\ cfg \in configs
    /\ pc = IF cfg.sdk THEN "sdk_session"
            ELSE IF cfg.bootstrap THEN "bootstrap" ELSE "session"
    /\ ctx = <<>>
    /\ loops \in tables
    /\ mounts = {}
    /\ bundle = FALSE
    /\ device = None
    /\ ownDev = None
    /\ exc = "none"
    /\ orig = "none"
    /\ log = <<>>
    /\ cmds = <<>>
    \* the identity left by init_lower_privileges(uid, gid)
    /\ priv = [ruid |-> 1000, euid |-> 1000, suid |-> 0,
               rgid |-> 100, egid |-> 100, sgid |-> 0, umask |-> 2]
    /\ current_mask = 0
    /\ assembled = FALSE
    /\ ovlopts = <<>>
    /\ resolv = FALSE
    /\ listing = <<>>
    /\ entered = FALSE
    /\ loops0 = loops
    /\ upper = {}
    /\ outfile = IF cfg.output_exists THEN OldFile ELSE Absent
    /\ squashed = 0
    /\ config_json = NoConfig
    /\ launches = <<>>
    /\ entry = NoEntry
    /\ issued = <<>>

\* A Container.session on a host with any loop devices already attached.
Init == InitWith(ContainerConfigs, [Devices -> {"free", "img", "other"}])

\* An Sdk.session on a host with no loop device attached yet.
SdkInit == InitWith(SdkConfigs, [Devices -> {"free"}])

\* ------------------------------------------------- privileges.py (elevate)
\* Variant of __enter__ that leaves the saved-set ids as they are.
Elevated_keep_saved(p) ==
    [ruid |-> 0, euid |-> 0, suid |-> p.suid,
     rgid |-> 0, egid |-> 0, sgid |-> p.sgid, umask |-> RootUmask]

\* ElevatedPrivileges.__enter__: setresgid(0, 0, egid); setresuid(0, 0, euid);
\* umask(0o022), the previous umask kept in current_mask.
Elevated(p) ==
    [ruid |-> 0, euid |-> 0, suid |-> p.euid,
     rgid |-> 0, egid |-> 0, sgid |-> p.egid, umask |-> RootUmask]

\* Variant of __exit__ without the os.umask(self.current_mask) call.
Restored_keep_umask(p, mask) ==
    [ruid |-> p.suid, euid |-> p.suid, suid |-> 0,
     rgid |-> p.sgid, egid |-> p.sgid, sgid |-> 0, umask |-> p.umask]

\* ElevatedPrivileges.__exit__: umask(current_mask); the real and effective
\* ids are read back from the saved-set slot, the saved-set ids become 0.
Restored(p, mask) ==
    [ruid |-> p.suid, euid |-> p.suid, suid |-> 0,
     rgid |-> p.sgid, egid |-> p.sgid, sgid |-> 0, umask |-> mask]

\* Variant of possible() that looks at the saved-set ids only.
possible_saved_only(p) == p.suid = 0 /\ p.sgid = 0

\* ElevatedPrivileges.possible(): (resuid[2], resgid[2]) == (0, 0) and
\* resuid[0] != 0 and resuid[1] != 0 and resgid[0] != 0 and resgid[0] != 0;
\* the last two terms both read the real gid.
possible(p) ==
    /\ p.suid = 0 /\ p.sgid = 0
    /\ p.ruid # 0 /\ p.euid # 0
    /\ p.rgid # 0 /\ p.rgid # 0

\* Sdk.session: "with ElevatedPrivileges(), sdk_container.session() ..."
ElevatedPrivileges_enter ==
    /\ pc = "sdk_session"
    /\ IF priv.euid = 0 \/ priv.egid = 0
       THEN /\ Raise("nested_elevation")
            /\ pc' = "unwind"
            /\ UNCHANGED <<priv, current_mask, ctx>>
       ELSE /\ priv' = Elevated(priv)
            /\ current_mask' = priv.umask
            /\ ctx' = Append(ctx, "elevated")
            /\ pc' = "session"
            /\ NoRaise
    /\ UNCHANGED <<cfg, loops, mounts, bundle, device, ownDev, log, cmds,
                   assembled, ovlopts, resolv,
                   listing, entered, loops0,
                   upper, outfile, squashed, config_json,
                   launches, entry, issued>>

\* --------------------------------------------- container.py (assembly)
\* Container.session: the TemporaryDirectory bundle and the directories
\* rootfs, overlay, overlay/lower, overlay/tmpfs inside it.
Session_create_bundle ==
    /\ pc = "session"
    /\ bundle' = TRUE
    /\ ctx' = Append(ctx, "bundle")
    /\ log' = Append(log, Acq("bundle", None))
    /\ pc' = "open_loop"
    /\ UNCHANGED <<cfg, loops, mounts, device, ownDev, exc, orig, cmds, priv,
                   current_mask, assembled, ovlopts, resolv,
                   listing, entered, loops0,
                   upper, outfile, squashed, config_json,
                   launches, entry, issued>>

\* open_loop(backfile, device=None): "losetup -r -f <backfile>".  The kernel
\* binds a free node to the file; the command can fail or time out.
open_loop ==
    \/ \E d \in Devices :
          /\ loops[d] = "free"
          /\ loops' = [loops EXCEPT ![d] = RealPath(cfg.rootfs)]
          /\ ownDev' = d
          /\ log' = Append(log, Acq("loop", d))
          /\ NoRaise
    \/ /\ Raise("open_loop")
       /\ UNCHANGED <<loops, ownDev, log>>

\* close_loop(device): "losetup -d <device>".
close_loop(dev) ==
    \E ok \in BOOLEAN :
        /\ ok => loops[dev] # "free"
        /\ loops' = IF ok THEN [loops EXCEPT ![dev] = "free"] ELSE loops
        /\ log' = Append(log, Rel("loop", dev, ok))
        /\ IF ok THEN NoRaise ELSE Raise("close_loop")

\* LoopDevice.__exit__
LoopDevice_exit ==
    IF device = None
    THEN /\ Raise("no_device_attr")
         /\ UNCHANGED <<loops, log>>
    ELSE close_loop(device)

\* LoopDevice.__enter__, first half: open_loop.
LoopDevice_enter_open ==
    /\ pc = "open_loop"
    /\ open_loop
    /\ pc' = IF exc' = "none" THEN "scan" ELSE "unwind"
    /\ UNCHANGED <<ctx, cfg, mounts, bundle, device, cmds, priv, current_mask,
                   assembled, ovlopts, resolv,
                   listing, entered, loops0,
                   upper, outfile, squashed, config_json,
                   launches, entry, issued>>

\* LoopDevice.__enter__: self.device is None, so loop_devices() is called
\* ("losetup -O NAME,BACK-FILE,RO -n -l --raw"); the command can fail.
LoopDevice_enter_list ==
    /\ pc = "scan"
    /\ \/ /\ listing' \in loop_devices(loops)
          /\ pc' = "resolve"
          /\ NoRaise
       \/ /\ Raise("loop_devices")
          /\ pc' = "loop_enter_cleanup"
          /\ UNCHANGED listing
    /\ UNCHANGED <<ctx, cfg, loops, mounts, bundle, device, ownDev, log, cmds,
                   priv, current_mask, assembled, ovlopts, resolv, entered,
                   loops0,
                   upper, outfile, squashed, config_json,
                   launches, entry, issued>>

\* LoopDevice.__enter__: the for/else over reversed(loop_devices()).
LoopDevice_enter_resolve ==
    /\ pc = "resolve"
    /\ LET d == ScanLoopDevices(listing, cfg.rootfs)
       IN  IF d = None
           THEN /\ Raise("loop_not_found")
                /\ pc' = "loop_enter_cleanup"
                /\ UNCHANGED device
           ELSE /\ device' = d
                /\ pc' = "squashfs_mount"
                /\ NoRaise
    /\ listing' = <<>>
    /\ UNCHANGED <<ctx, cfg, loops, mounts, bundle, ownDev, log, cmds, priv,
                   current_mask, assembled, ovlopts, resolv, entered, loops0,
                   upper, outfile, squashed, config_json,
                   launches, entry, issued>>

\* LoopDevice.__enter__, "except: self.__exit__(*sys.exc_info()); raise".
LoopDevice_enter_cleanup ==
    /\ pc = "loop_enter_cleanup"
    /\ LoopDevice_exit
    /\ pc' = "unwind"
    /\ UNCHANGED <<ctx, cfg, mounts, bundle, device, ownDev, cmds, priv,
                   current_mask, assembled, ovlopts, resolv,
                   listing, entered, loops0,
                   upper, outfile, squashed, config_json,
                   launches, entry, issued>>

\* mount(source, target, type, options): "mount -t <type> -o ... "; ok is
\* the outcome of the command (it exits non-zero or times out when ~ok).
mount(source, target, type, options, res, err, ok) ==
    IF ok
    THEN /\ mounts' = mounts \cup
                        {[source |-> source, target |-> target, type |-> type,
                          options |-> options]}
         /\ log' = Append(log, Acq(res, None))
         /\ ctx' = Append(ctx, res)
         /\ NoRaise
    ELSE /\ Raise(err)
         /\ UNCHANGED <<mounts, log, ctx>>

\* umount(target): "umount <target>".
umount(target, res, err, ok) ==
    /\ mounts' = IF ok THEN {m \in mounts : m.target # target} ELSE mounts
    /\ log' = Append(log, Rel(res, None, ok))
    /\ IF ok THEN NoRaise ELSE Raise(err)

\* The position reached when Container.session yields the ContainerSession.
AfterYield ==
    IF cfg.sdk THEN "prelude"
    ELSE IF cfg.bootstrap THEN "boot_marker" ELSE "body"

\* SquashfsMount.__enter__, the try block: Mountpoint(source=device,
\* target, "squashfs", ['ro']).__enter__().
SquashfsMount_enter_mount ==
    /\ pc = "squashfs_mount"
    /\ \E ok \in BOOLEAN :
          /\ mount(device, SquashTarget, "squashfs", << <<"ro">> >>,
                   "squashfs", "mount_squashfs", ok)
          /\ pc' = IF ~ok THEN "squashfs_enter_cleanup"
                   ELSE IF cfg.readonly_root THEN AfterYield ELSE "tmpfs_mount"
          /\ assembled' = (ok /\ cfg.readonly_root)
    /\ UNCHANGED <<cfg, loops, bundle, device, ownDev, cmds, priv,
                   current_mask, ovlopts, resolv,
                   listing, entered, loops0,
                   upper, outfile, squashed, config_json,
                   launches, entry, issued>>

\* Variant of the except clause of SquashfsMount.__enter__ that re-raises
\* without calling self._loopdev.__exit__.
SquashfsMount_enter_no_cleanup ==
    /\ pc = "squashfs_enter_cleanup"
    /\ pc' = "unwind"
    /\ UNCHANGED <<ctx, cfg, loops, mounts, bundle, device, ownDev, exc, orig,
                   log, cmds, priv, current_mask, assembled, ovlopts, resolv,
                   listing, entered, loops0,
                   upper, outfile, squashed, config_json,
                   launches, entry, issued>>

\* SquashfsMount.__enter__, "except: self._loopdev.__exit__(...); raise".
SquashfsMount_enter_cleanup ==
    /\ pc = "squashfs_enter_cleanup"
    /\ LoopDevice_exit
    /\ pc' = "unwind"
    /\ UNCHANGED <<ctx, cfg, mounts, bundle, device, ownDev, cmds, priv,
                   current_mask, assembled, ovlopts, resolv,
                   listing, entered, loops0,
                   upper, outfile, squashed, config_json,
                   launches, entry, issued>>

\* TmpfsMount.__enter__: Mountpoint("tmpfs", overlay/tmpfs, "tmpfs").
TmpfsMount_enter ==
    /\ pc = "tmpfs_mount"
    /\ \E ok \in BOOLEAN :
          /\ mount("tmpfs", "tmpfs", "tmpfs", << <<"size=10g">> >>,
                   "tmpfs", "mount_tmpfs", ok)
          /\ pc' = IF ok THEN "mkdir" ELSE "unwind"
    /\ UNCHANGED <<cfg, loops, bundle, device, ownDev, cmds, priv,
                   current_mask, assembled, ovlopts, resolv,
                   listing, entered, loops0,
                   upper, outfile, squashed, config_json,
                   launches, entry, issued>>

\* os.mkdir(overlayfs_upper_dir); os.mkdir(overlayfs_work_dir)
Session_mkdir_upper_work ==
    /\ pc = "mkdir"
    /\ \/ /\ log' = Append(log, [op |-> "mkdir", res |-> "upper_work",
                                  dev |-> None, ok |-> TRUE])
          /\ NoRaise
          /\ pc' = "linux_version"
       \/ Raise("mkdir") /\ pc' = "unwind" /\ UNCHANGED log
    /\ UNCHANGED <<ctx, cfg, loops, mounts, bundle, device, ownDev, cmds,
                   priv, current_mask, assembled, ovlopts, resolv,
                   listing, entered, loops0,
                   upper, outfile, squashed, config_json,
                   launches, entry, issued>>

\* Kernel versions (major, minor) the host may run.
KernelVersions == {<<3, 18>>, <<4, 13>>, <<4, 15>>, <<4, 16>>, <<5, 4>>}

\* Python's tuple comparison kv >= (major, minor).
VersionGE(kv, major, minor) ==
    \/ kv[1] > major
    \/ kv[1] = major /\ kv[2] >= minor

\* overlayfs_mount_options for kernel version kv.
OverlayOptions(kv) ==
    (IF VersionGE(kv, 4, 13) THEN << <<"index=off">> >> ELSE <<>>)
    \o (IF VersionGE(kv, 4, 16) THEN << <<"nfs_export=off">> >> ELSE <<>>)

\* linux_version() and the choice of the overlay options; linux_version
\* raises CosmkEnvironmentError when the release string cannot be parsed.
Session_linux_version ==
    /\ pc = "linux_version"
    /\ \/ \E kv \in KernelVersions :
            /\ ovlopts' = OverlayOptions(kv)
            /\ NoRaise
            /\ pc' = "overlay_mount"
       \/ /\ Raise("linux_version")
          /\ pc' = "unwind"
          /\ UNCHANGED ovlopts
    /\ UNCHANGED <<ctx, cfg, loops, mounts, bundle, device, ownDev, log, cmds,
                   priv, current_mask, assembled, resolv,
                   listing, entered, loops0,
                   upper, outfile, squashed, config_json,
                   launches, entry, issued>>

\* Variant of the options of the overlay mount that gives the upper
\* directory as the lower layer.
overlay_options_upper_as_lower(lowerdir, upperdir, workdir, additional_options) ==
    << <<"lowerdir=">> \o upperdir >>
        \o (IF upperdir # <<>> THEN << <<"upperdir=">> \o upperdir >>
            ELSE <<>>)
        \o (IF workdir # <<>> THEN << <<"workdir=">> \o workdir >>
            ELSE <<>>)
        \o additional_options

\* OverlayfsMount.__enter__: the options of the overlay mount, from the
\* texts of the directories (the empty text for a directory that is not
\* set) and the additional options.
overlay_options(lowerdir, upperdir, workdir, additional_options) ==
    << <<"lowerdir=">> \o JoinText(lowerdir, ":") >>
        \o (IF upperdir # <<>> THEN << <<"upperdir=">> \o upperdir >>
            ELSE <<>>)
        \o (IF workdir # <<>> THEN << <<"workdir=">> \o workdir >>
            ELSE <<>>)
        \o additional_options

\* OverlayfsMount.__enter__: Mountpoint("overlayfs", rootfs, "overlay",
\* options) with the lower, upper and work directories of the session.
OverlayfsMount_enter ==
    /\ pc = "overlay_mount"
    /\ \E ok \in BOOLEAN :
          /\ mount("overlayfs", "rootfs", "overlay",
                   overlay_options(<< <<"lower">> >>, <<"tmpfs", "/", "upper">>,
                                   <<"tmpfs", "/", "work">>, ovlopts),
                   "overlay", "mount_overlay", ok)
          /\ pc' = IF ok THEN "resolv_conf" ELSE "unwind"
    /\ UNCHANGED <<cfg, loops, bundle, device, ownDev, cmds, priv,
                   current_mask, assembled, ovlopts, resolv,
                   listing, entered, loops0,
                   upper, outfile, squashed, config_json,
                   launches, entry, issued>>

\* Variant of the end of the assembly that yields the ContainerSession
\* without copying /etc/resolv.conf.
Session_resolv_conf_skipped ==
    /\ pc = "resolv_conf"
    /\ pc' = AfterYield
    /\ assembled' = TRUE
    /\ UNCHANGED <<ctx, cfg, loops, mounts, bundle, device, ownDev, exc, orig,
                   log, cmds, priv, current_mask, ovlopts, resolv,
                   listing, entered, loops0,
                   upper, outfile, squashed, config_json,
                   launches, entry, issued>>

\* The copy of /etc/resolv.conf (when the host network namespace is shared
\* and the file exists on the host, os.path.exists("/etc/resolv.conf")),
\* then the yield of the ContainerSession.
Session_resolv_conf ==
    /\ pc = "resolv_conf"
    /\ IF cfg.shared_host_netns /\ cfg.host_resolv_conf
       THEN \/ resolv' = TRUE /\ NoRaise /\ pc' = AfterYield
            \/ Raise("copy_resolv_conf") /\ pc' = "unwind" /\ UNCHANGED resolv
       ELSE UNCHANGED resolv /\ NoRaise /\ pc' = AfterYield
    /\ upper' = IF resolv' THEN upper \cup {File("resolv.conf", 0)} ELSE upper
    /\ assembled' = (exc' = "none")
    /\ UNCHANGED <<ctx, cfg, loops, mounts, bundle, device, ownDev, log, cmds,
                   priv, current_mask, ovlopts,
                   listing, entered, loops0,
                   outfile, squashed, config_json,
                   launches, entry, issued>>


\* ------------------------------------- container.py (runtime specification)
\* ContainerMountpoint(source, target, type)
ContainerMountpoint(source, target, type) ==
    [source |-> source, target |-> target, type |-> type]

\* ContainerMountpoint.as_dict: the target is written as "destination".
Mountpoint_as_dict(m) ==
    [source |-> m.source, destination |-> m.target, type |-> m.type]

\* Container.required_mountpoints
required_mountpoints ==
    << ContainerMountpoint("proc", "/proc", "proc"),
       ContainerMountpoint("tmpfs", "/dev", "tmpfs"),
       ContainerMountpoint("devpts", "/dev/pts", "devpts"),
       ContainerMountpoint("shm", "/dev/shm", "tmpfs"),
       ContainerMountpoint("mqueue", "/dev/mqueue", "mqueue"),
       ContainerMountpoint("sysfs", "/sys", "sysfs"),
       ContainerMountpoint("cgroup", "/sys/fs/cgroup", "cgroup") >>

\* Container.mountpoints
mountpoints(c) == c.additional_mountpoints \o required_mountpoints

\* ContainerDeviceBinding.as_dict
DeviceBinding_as_dict(d) ==
    [path |-> d.container_device, type |-> d.device_type,
     major |-> d.device_major, minor |-> d.device_minor]

\* Variant of cgroup_authorization_dict with the two numbers exchanged.
cgroup_authorization_dict_swapped(d) ==
    [allow |-> TRUE, type |-> d.device_type, major |-> d.device_minor,
     minor |-> d.device_major, access |-> "rwm"]

\* ContainerDeviceBinding.cgroup_authorization_dict
cgroup_authorization_dict(d) ==
    [allow |-> TRUE, type |-> d.device_type, major |-> d.device_major,
     minor |-> d.device_minor, access |-> "rwm"]

\* The rule that opens the device cgroup list of Container._runc_config.
DenyAll == [allow |-> FALSE, access |-> "rwm"]

\* Variant of unshared_namespaces that unshares the network namespace of
\* every Container.
unshared_namespaces_all(c) ==
    {"pid", "ipc", "uts", "mount", "network"}

\* Container.unshared_namespaces
unshared_namespaces(c) ==
    {"pid", "ipc", "uts", "mount"}
        \cup (IF ~c.shared_host_netns THEN {"network"} ELSE {})

\* Container._runc_config(command, ...): the parts of the runtime
\* specification that depend on the container and on the command.  The
\* keys of "capabilities" are the keys the code writes.
runc_config(c, command) ==
    [args |-> command,
     capabilities |->
         [bounding |-> c.capabilities, effective |-> c.capabilities,
          inheritable |-> c.capabilities, permitted |-> c.capabilities,
          ambiant |-> c.capabilities],
     namespaces |-> {[type |-> ns] : ns \in unshared_namespaces(c)},
     noNewPrivileges |-> TRUE,
     root |-> [path |-> "rootfs", readonly |-> FALSE],
     mounts |->
         [i \in 1..Len(mountpoints(c)) |->
             Mountpoint_as_dict(mountpoints(c)[i])],
     devices |->
         [i \in 1..Len(c.device_bindings) |->
             DeviceBinding_as_dict(c.device_bindings[i])],
     cgroup_devices |->
         <<DenyAll>> \o [i \in 1..Len(c.device_bindings) |->
                           cgroup_authorization_dict(c.device_bindings[i])]]

\* Container.session: the bundle directory made by TemporaryDirectory and
\* the name of the instance, os.path.basename(bundle_dir).
bundle_dir == "run/containers/name.XXXXXXXX"
runc_container_name == "name.XXXXXXXX"

\* ContainerSession.run: the command line of the launcher.
runc_cmd(runc_bin) ==
    <<runc_bin, "run", "--bundle", bundle_dir, runc_container_name>>

\* ------------------------------------------- container.py / sdk.py (use)
\* Number of run calls of a phase so far.
Ran(phase) == Cardinality({i \in 1..Len(cmds) : cmds[i].phase = phase})

\* Variant of the snapshot source: the read-only lower directory (the base
\* image alone) instead of the merged rootfs directory.
RootfsContents_lower == IF mounts # {} THEN BaseImage ELSE {}

\* The rootfs directory of the bundle has a filesystem mounted on it.
RootfsMounted == \E m \in mounts : m.target = "rootfs"

\* The rootfs directory is the writable overlay.
RootfsWritable == \E m \in mounts : m.target = "rootfs" /\ m.type = "overlay"

\* Contents of the directory <bundle>/rootfs.
RootfsContents ==
    IF RootfsWritable THEN BaseImage \cup upper
    ELSE IF RootfsMounted THEN BaseImage
    ELSE {}

\* Outcomes of a run call: the command ran and exited with status zero; the
\* launcher or the command exited non-zero (SystemCommandError); no launcher
\* binary is found (CosmkEnvironmentError); config.json cannot be opened
\* because the bundle directory does not exist (FileNotFoundError).
RunOutcomes == {"ok", "launcher_failed", "no_launcher", "no_bundle_dir"}

\* The outcomes in which the launcher was invoked.
Launched == {"ok", "launcher_failed"}

\* Variant of ContainerSession.run that starts the launcher before it
\* writes config.json.
ContainerSession_run_stale(phase, cmd, outcome) ==
    /\ (outcome = "no_bundle_dir") => ~bundle
    /\ (outcome \in Launched) => bundle
    /\ (outcome = "ok") => RootfsMounted
    /\ (outcome = "ok" /\ cmd = "touch") => RootfsWritable
    /\ cmds' = Append(cmds, [phase |-> phase, idx |-> Ran(phase) + 1,
                             cmd |-> cmd, outcome |-> outcome])
    /\ config_json' = IF outcome \in Launched THEN runc_config(cfg, cmd)
                      ELSE config_json
    /\ launches' = IF outcome \in Launched
                   THEN Append(launches, [cmdline |-> runc_cmd(cfg.runc_bin),
                                          cmd |-> cmd,
                                          config |-> config_json])
                   ELSE launches
    /\ upper' = IF outcome = "ok" /\ cmd = "touch"
                THEN upper \cup {File("marker", Len(cmds) + 1)}
                ELSE upper
    /\ IF outcome = "ok" THEN NoRaise ELSE Raise(outcome)

\* Variant of ContainerSession.run that writes config.json before it looks
\* for the launcher.
ContainerSession_run_write_first(phase, cmd, outcome) ==
    /\ (outcome = "no_bundle_dir") => ~bundle
    /\ (outcome \in Launched) => bundle
    /\ (outcome = "ok") => RootfsMounted
    /\ (outcome = "ok" /\ cmd = "touch") => RootfsWritable
    /\ cmds' = Append(cmds, [phase |-> phase, idx |-> Ran(phase) + 1,
                             cmd |-> cmd, outcome |-> outcome])
    /\ config_json' = IF outcome # "no_bundle_dir" THEN runc_config(cfg, cmd)
                      ELSE config_json
    /\ launches' = IF outcome \in Launched
                   THEN Append(launches, [cmdline |-> runc_cmd(cfg.runc_bin),
                                          cmd |-> cmd,
                                          config |-> config_json'])
                   ELSE launches
    /\ upper' = IF outcome = "ok" /\ cmd = "touch"
                THEN upper \cup {File("marker", Len(cmds) + 1)}
                ELSE upper
    /\ IF outcome = "ok" THEN NoRaise ELSE Raise(outcome)

\* ContainerSession.run of command cmd as the next command of a phase.  The
\* launcher is looked up, then config.json is written into the bundle
\* directory, then the launcher is invoked.  The command "touch" creates a
\* file in the rootfs; it cannot succeed unless the rootfs is writable, and
\* no command can succeed unless a root filesystem is mounted.
ContainerSession_run(phase, cmd, outcome) ==
    /\ (outcome = "no_bundle_dir") => ~bundle
    /\ (outcome \in Launched) => bundle
    /\ (outcome = "ok") => RootfsMounted
    /\ (outcome = "ok" /\ cmd = "touch") => RootfsWritable
    /\ cmds' = Append(cmds, [phase |-> phase, idx |-> Ran(phase) + 1,
                             cmd |-> cmd, outcome |-> outcome])
    /\ config_json' = IF outcome \in Launched THEN runc_config(cfg, cmd)
                      ELSE config_json
    /\ launches' = IF outcome \in Launched
                   THEN Append(launches, [cmdline |-> runc_cmd(cfg.runc_bin),
                                          cmd |-> cmd,
                                          config |-> config_json'])
                   ELSE launches
    /\ upper' = IF outcome = "ok" /\ cmd = "touch"
                THEN upper \cup {File("marker", Len(cmds) + 1)}
                ELSE upper
    /\ IF outcome = "ok" THEN NoRaise ELSE Raise(outcome)

\* Variant of the prelude loop that goes on to the next command after a
\* failed one (as with run(..., check=False)).
Sdk_session_prelude_unchecked ==
    /\ pc = "prelude"
    /\ Ran("prelude") < cfg.prelude
    /\ \E outcome \in {"ok", "launcher_failed"} :
          /\ cmds' = Append(cmds, [phase |-> "prelude",
                                   idx |-> Ran("prelude") + 1,
                                   cmd |-> "true", outcome |-> outcome])
    /\ UNCHANGED <<pc, ctx, cfg, loops, mounts, bundle, device, ownDev, exc,
                   orig, log, priv, current_mask, assembled, ovlopts, resolv,
                   listing, entered, loops0,
                   upper, outfile, squashed, config_json,
                   launches, entry, issued>>

\* Sdk.session: "for cmd in self.prelude_commands: cont_sess.run(...)".
Sdk_session_prelude ==
    /\ pc = "prelude"
    /\ Ran("prelude") < cfg.prelude
    /\ \E outcome \in RunOutcomes :
          /\ ContainerSession_run("prelude", "true", outcome)
          /\ pc' = IF outcome = "ok" THEN "prelude" ELSE "unwind"
    /\ UNCHANGED <<ctx, cfg, loops, mounts, bundle, device, ownDev, log, priv,
                   current_mask, assembled, ovlopts, resolv,
                   listing, entered, loops0,
                   outfile, squashed,
                   entry, issued>>

\* Sdk.session: "yield SdkSession(...)" once the prelude loop is over.
Sdk_session_yield ==
    /\ pc = "prelude"
    /\ Ran("prelude") = cfg.prelude
    /\ pc' = "body"
    /\ entered' = TRUE
    /\ UNCHANGED <<ctx, cfg, loops, mounts, bundle, device, ownDev, exc, orig,
                   log, cmds, priv, current_mask, assembled, ovlopts, resolv,
                   listing, loops0,
                   upper, outfile, squashed, config_json,
                   launches, entry, issued>>

\* Variant of the caller's run in which a failing run tears the root
\* filesystem of the session down before it raises.
Body_run_teardown ==
    /\ pc = "body"
    /\ Ran("body") < MaxBody
    /\ \E cmd \in cfg.body_commands, outcome \in RunOutcomes :
          /\ ContainerSession_run("body", cmd, outcome)
          /\ pc' = IF outcome = "ok" THEN "body" ELSE "unwind"
          /\ mounts' = IF outcome = "ok" THEN mounts
                       ELSE {m \in mounts : m.target # "rootfs"}
    /\ UNCHANGED <<ctx, cfg, loops, bundle, device, ownDev, log, priv,
                   current_mask, assembled, ovlopts, resolv,
                   listing, entered, loops0,
                   outfile, squashed,
                   entry, issued>>

\* The caller's with-block: a run through the session (SdkSession.run or
\* ContainerSession.run); a failing run raises out of the block.
Body_run ==
    /\ pc = "body"
    /\ Ran("body") < MaxBody
    /\ \E cmd \in cfg.body_commands, outcome \in RunOutcomes :
          /\ ContainerSession_run("body", cmd, outcome)
          /\ pc' = IF outcome = "ok" THEN "body" ELSE "unwind"
    /\ UNCHANGED <<ctx, cfg, loops, mounts, bundle, device, ownDev, log, priv,
                   current_mask, assembled, ovlopts, resolv,
                   listing, entered, loops0,
                   outfile, squashed,
                   entry, issued>>

\* The caller's with-block ends normally: the generator is resumed after
\* its yield (Sdk.session: the postlude loop; Container.session: the end).
Body_end ==
    /\ pc = "body"
    /\ pc' = IF cfg.sdk THEN "postlude" ELSE "unwind"
    /\ UNCHANGED <<ctx, cfg, loops, mounts, bundle, device, ownDev, exc, orig,
                   log, cmds, priv, current_mask, assembled, ovlopts, resolv,
                   listing, entered, loops0,
                   upper, outfile, squashed, config_json,
                   launches, entry, issued>>

\* Variant of the postlude loop that goes on to the next command after a
\* failed one (as with run(..., check=False)).
Sdk_session_postlude_unchecked ==
    /\ pc = "postlude"
    /\ Ran("postlude") < cfg.postlude
    /\ \E outcome \in {"ok", "launcher_failed"} :
          /\ cmds' = Append(cmds, [phase |-> "postlude",
                                   idx |-> Ran("postlude") + 1,
                                   cmd |-> "true", outcome |-> outcome])
    /\ UNCHANGED <<pc, ctx, cfg, loops, mounts, bundle, device, ownDev, exc,
                   orig, log, priv, current_mask, assembled, ovlopts, resolv,
                   listing, entered, loops0,
                   upper, outfile, squashed, config_json,
                   launches, entry, issued>>

\* Sdk.session: "for cmd in self.postlude_commands: cont_sess.run(...)".
Sdk_session_postlude ==
    /\ pc = "postlude"
    /\ Ran("postlude") < cfg.postlude
    /\ \E outcome \in RunOutcomes :
          /\ ContainerSession_run("postlude", "true", outcome)
          /\ pc' = IF outcome = "ok" THEN "postlude" ELSE "unwind"
    /\ UNCHANGED <<ctx, cfg, loops, mounts, bundle, device, ownDev, log, priv,
                   current_mask, assembled, ovlopts, resolv,
                   listing, entered, loops0,
                   outfile, squashed,
                   entry, issued>>

\* Sdk.session: the end of the with-block after the postlude loop.
Sdk_session_end ==
    /\ pc = "postlude"
    /\ Ran("postlude") = cfg.postlude
    /\ pc' = "unwind"
    /\ UNCHANGED <<ctx, cfg, loops, mounts, bundle, device, ownDev, exc, orig,
                   log, cmds, priv, current_mask, assembled, ovlopts, resolv,
                   listing, entered, loops0,
                   upper, outfile, squashed, config_json,
                   launches, entry, issued>>

\* mksquashfs(squashfs_file, source_dir, ...): ValueError when source_dir is
\* not a directory; a file already at squashfs_file is removed; then the
\* utility is run ("mksquashfs <source_dir> <squashfs_file> ..."), which
\* writes the image of contents, or fails and leaves leftover behind.
mksquashfs(contents, outcome, leftover) ==
    /\ (outcome = "not_a_directory") <=> ~bundle
    /\ (outcome = "remove_failed") => outfile # Absent
    /\ squashed' = IF outcome \in {"ok", "mksquashfs_failed"}
                   THEN squashed + 1 ELSE squashed
    /\ outfile' = CASE outcome = "ok" -> Image(contents)
                    [] outcome = "mksquashfs_failed" -> leftover
                    [] OTHER -> outfile

SnapshotOutcomes ==
    {"ok", "mksquashfs_failed", "remove_failed", "not_a_directory"}

\* Variant of snapshot without the check of readonly_root.
ContainerSession_snapshot_unguarded ==
    /\ pc = "body"
    /\ ~cfg.sdk
    /\ squashed < MaxSnap
    /\ \E outcome \in SnapshotOutcomes, leftover \in {Absent, Partial} :
          /\ mksquashfs(RootfsContents, outcome, leftover)
          /\ IF outcome = "ok"
             THEN NoRaise /\ pc' = "body"
             ELSE Raise("snapshot_error") /\ pc' = "unwind"
    /\ UNCHANGED <<ctx, cfg, loops, mounts, bundle, device, ownDev, log, cmds,
                   priv, current_mask, assembled, ovlopts, resolv, listing,
                   entered, loops0, upper, config_json,
                   launches, entry, issued>>

\* ContainerSession.snapshot(squashfs_filepath), called in the with-block of
\* a caller that holds the ContainerSession (an SdkSession offers run only).
\* Any error of mksquashfs becomes a ContainerSnapshotError.
ContainerSession_snapshot ==
    /\ pc = "body"
    /\ ~cfg.sdk
    /\ squashed < MaxSnap
    /\ IF cfg.readonly_root
       THEN /\ Raise("snapshot_error")
            /\ pc' = "unwind"
            /\ UNCHANGED <<outfile, squashed>>
       ELSE \E outcome \in SnapshotOutcomes, leftover \in {Absent, Partial} :
               /\ mksquashfs(RootfsContents, outcome, leftover)
               /\ IF outcome = "ok"
                  THEN NoRaise /\ pc' = "body"
                  ELSE Raise("snapshot_error") /\ pc' = "unwind"
    /\ UNCHANGED <<ctx, cfg, loops, mounts, bundle, device, ownDev, log, cmds,
                   priv, current_mask, assembled, ovlopts, resolv, listing,
                   entered, loops0, upper, config_json,
                   launches, entry, issued>>

\* ------------------------------------------------------------- teardown
\* The with-statements are left innermost first; pc = "unwind" with the
\* manager on top of ctx runs that manager's __exit__.
Leaving(res) == pc = "unwind" /\ ctx # <<>> /\ Top(ctx) = res

\* OverlayfsMount.__exit__: self._mount.__exit__() -> umount(rootfs)
OverlayfsMount_exit ==
    /\ Leaving("overlay")
    /\ \E ok \in BOOLEAN : umount("rootfs", "overlay", "umount_overlay", ok)
    /\ ctx' = Pop(ctx)
    /\ UNCHANGED <<pc, cfg, loops, bundle, device, ownDev, cmds, priv,
                   current_mask, assembled, ovlopts, resolv,
                   listing, entered, loops0,
                   upper, outfile, squashed, config_json,
                   launches, entry, issued>>

\* TmpfsMount.__exit__: self._mount.__exit__() -> umount(overlay/tmpfs)
TmpfsMount_exit ==
    /\ Leaving("tmpfs")
    /\ \E ok \in BOOLEAN :
          /\ umount("tmpfs", "tmpfs", "umount_tmpfs", ok)
          \* the files of the upper directory go with the tmpfs
          /\ upper' = IF ok THEN {} ELSE upper
    /\ ctx' = Pop(ctx)
    /\ UNCHANGED <<pc, cfg, loops, bundle, device, ownDev, cmds, priv,
                   current_mask, assembled, ovlopts, resolv,
                   listing, entered, loops0,
                   outfile, squashed, config_json,
                   launches, entry, issued>>

\* Variant of SquashfsMount.__exit__ with its two statements swapped: the
\* loop device is detached first, the mount point is unmounted after it.
SquashfsMount_exit_swapped ==
    /\ Leaving("squashfs")
    /\ loops' = [loops EXCEPT ![device] = "free"]
    /\ mounts' = {m \in mounts : m.target # SquashTarget}
    /\ log' = log \o <<Rel("loop", device, TRUE), Rel("squashfs", None, TRUE)>>
    /\ NoRaise
    /\ pc' = "unwind"
    /\ ctx' = Pop(ctx)
    /\ UNCHANGED <<cfg, bundle, device, ownDev, cmds, priv, current_mask,
                   assembled, ovlopts, resolv, listing, entered, loops0,
                   upper, outfile, squashed, config_json,
                   launches, entry, issued>>

\* SquashfsMount.__exit__, first statement: self._mount.__exit__(...).  When
\* umount raises, the second statement is not reached.
SquashfsMount_exit_umount ==
    /\ Leaving("squashfs")
    /\ \E ok \in BOOLEAN :
          /\ umount(SquashTarget, "squashfs", "umount_squashfs", ok)
          /\ pc' = IF ok THEN "squashfs_exit_loop" ELSE "unwind"
    /\ ctx' = Pop(ctx)
    /\ UNCHANGED <<cfg, loops, bundle, device, ownDev, cmds, priv,
                   current_mask, assembled, ovlopts, resolv,
                   listing, entered, loops0,
                   upper, outfile, squashed, config_json,
                   launches, entry, issued>>

\* SquashfsMount.__exit__, second statement: self._loopdev.__exit__(...).
SquashfsMount_exit_loop ==
    /\ pc = "squashfs_exit_loop"
    /\ LoopDevice_exit
    /\ pc' = "unwind"
    /\ UNCHANGED <<ctx, cfg, mounts, bundle, device, ownDev, cmds, priv,
                   current_mask, assembled, ovlopts, resolv,
                   listing, entered, loops0,
                   upper, outfile, squashed, config_json,
                   launches, entry, issued>>

\* tempfile.TemporaryDirectory.__exit__: rmtree of the bundle directory.  It
\* raises when a mount is still attached inside the tree.  The walk descends
\* into attached mounts and stops at the first entry it cannot delete: with the
\* tmpfs still attached, the files of the upper directory are deleted when the
\* walk reaches them before that entry.
TemporaryDirectory_exit ==
    /\ Leaving("bundle")
    /\ LET ok == SessionMounts = {}
       IN  /\ bundle' = ~ok
           /\ log' = Append(log, Rel("bundle", None, ok))
           /\ IF ok THEN NoRaise ELSE Raise("rmtree")
           /\ IF \E m \in mounts : m.target = "tmpfs"
                 THEN upper' \in {upper, {}}
                 ELSE upper' = upper
    /\ ctx' = Pop(ctx)
    /\ UNCHANGED <<pc, cfg, loops, mounts, device, ownDev, cmds, priv,
                   current_mask, assembled, ovlopts, resolv,
                   listing, entered, loops0,
                   outfile, squashed, config_json,
                   launches, entry, issued>>

\* Variant of ElevatedPrivileges.__exit__ that restores the identity only
\* when the block ended without an exception.
ElevatedPrivileges_exit_on_success ==
    /\ Leaving("elevated")
    /\ priv' = IF exc = "none" THEN Restored(priv, current_mask) ELSE priv
    /\ ctx' = Pop(ctx)
    /\ UNCHANGED <<pc, cfg, loops, mounts, bundle, device, ownDev, exc, orig,
                   log, cmds, current_mask, assembled, ovlopts, resolv,
                   listing, entered, loops0,
                   upper, outfile, squashed, config_json,
                   launches, entry, issued>>

\* ElevatedPrivileges.__exit__
ElevatedPrivileges_exit ==
    /\ Leaving("elevated")
    /\ priv' = Restored(priv, current_mask)
    /\ ctx' = Pop(ctx)
    /\ UNCHANGED <<pc, cfg, loops, mounts, bundle, device, ownDev, exc, orig,
                   log, cmds, current_mask, assembled, ovlopts, resolv,
                   listing, entered, loops0,
                   upper, outfile, squashed, config_json,
                   launches, entry, issued>>

\* Every with-statement is left: the caller gets control back, with the
\* exception in flight (exc) if there is one.
Return ==
    /\ pc = "unwind"
    /\ ctx = <<>>
    /\ pc' = "done"
    /\ UNCHANGED <<ctx, cfg, loops, mounts, bundle, device, ownDev, exc, orig,
                   log, cmds, priv, current_mask, assembled, ovlopts, resolv,
                   listing, entered, loops0,
                   upper, outfile, squashed, config_json,
                   launches, entry, issued>>

\* The steps of Container.session and of its caller.
Next ==
    \/ Session_create_bundle
    \/ LoopDevice_enter_open
    \/ LoopDevice_enter_list
    \/ LoopDevice_enter_resolve
    \/ LoopDevice_enter_cleanup
    \/ SquashfsMount_enter_mount
    \/ SquashfsMount_enter_cleanup
    \/ TmpfsMount_enter
    \/ Session_mkdir_upper_work
    \/ Session_linux_version
    \/ OverlayfsMount_enter
    \/ Session_resolv_conf
    \/ Body_run
    \/ Body_end
    \/ OverlayfsMount_exit
    \/ TmpfsMount_exit
    \/ SquashfsMount_exit_umount
    \/ SquashfsMount_exit_loop
    \/ TemporaryDirectory_exit
    \/ Return

Spec == Init /\ [][Next]_vars

\* A caller that kept the ContainerSession calls run on it after the
\* with-block of Container.session has been left.
Closed_run ==
    /\ pc = "done"
    /\ assembled
    /\ \E cmd \in cfg.body_commands, outcome \in RunOutcomes :
          ContainerSession_run("closed", cmd, outcome)
    /\ pc' = "closed_run"
    /\ UNCHANGED <<ctx, cfg, loops, mounts, bundle, device, ownDev, log, priv,
                   current_mask, assembled, ovlopts, resolv, listing, entered,
                   loops0, outfile, squashed,
                   entry, issued>>

\* A Container.session whose caller runs commands that write to the rootfs,
\* takes snapshots, and may call run after the session was closed; the
\* output path of snapshot may hold a file beforehand.
UseConfigs ==
    [sdk : {FALSE}, readonly_root : BOOLEAN, shared_host_netns : {TRUE},
     rootfs : {"img"}, prelude : {0}, postlude : {0},
     additional_mountpoints : {<<>>}, device_bindings : {<<>>},
     capabilities : {DefaultCapabilities}, runc_bin : {"runc"},
     host_resolv_conf : {TRUE},
     body_commands : {{"touch"}}, output_exists : BOOLEAN,
     bootstrap : {FALSE}]

UseInit == InitWith(UseConfigs, [Devices -> {"free"}])

UseNext ==
    \/ ContainerSession_snapshot
    \/ Closed_run
    \/ Next

UseSpec == UseInit /\ [][UseNext]_vars

\* The steps of Sdk.session: those of Container.session inside the
\* elevation, with the prelude and postlude loops around the body.
SdkNext ==
    \/ ElevatedPrivileges_enter
    \/ Sdk_session_prelude
    \/ Sdk_session_yield
    \/ Sdk_session_postlude
    \/ Sdk_session_end
    \/ ElevatedPrivileges_exit
    \/ Next

SdkSpec == SdkInit /\ [][SdkNext]_vars


\* ------------------------------------------------- sdk.py (Sdk.bootstrap)
\* Sdk.bootstrap: its Container is writable and shares the host network
\* namespace; the block of its session runs the marker command, the
\* prelude commands, the bootstrap steps and the postlude commands, and
\* takes the snapshot of the SDK image, whose path in the cache may hold an
\* earlier image.
BootConfigs ==
    [sdk : {FALSE}, readonly_root : {FALSE}, shared_host_netns : {TRUE},
     rootfs : {"img"}, prelude : 0..1, steps : 0..MaxCmds, postlude : 0..1,
     additional_mountpoints : {<<>>}, device_bindings : {<<>>},
     capabilities : {DefaultCapabilities}, runc_bin : {"runc"},
     host_resolv_conf : {TRUE},
     body_commands : {{"touch"}}, output_exists : BOOLEAN,
     bootstrap : {TRUE}]

\* Sdk.bootstrap or Sdk.session, on a host with no loop device attached.
BootInit == InitWith(BootConfigs \cup SdkConfigs, [Devices -> {"free"}])

\* "with tmp_bootstrap_dir as tmpdir:", os.mkdir(tarimage_contents_path) and
\* the entry of the try statement.
Bootstrap_tmpdir_enter ==
    /\ pc = "bootstrap"
    /\ ctx' = ctx \o <<"tmpdir", "try">>
    /\ pc' = "boot_e1"
    /\ UNCHANGED <<cfg, loops, mounts, bundle, device, ownDev, exc, orig, log,
                   cmds, priv, current_mask, assembled, ovlopts, resolv,
                   listing, entered, loops0,
                   upper, outfile, squashed, config_json,
                   launches, entry, issued>>

\* The block that each "with ElevatedPrivileges()" of Sdk.bootstrap opens:
\* the extraction of the archive, mksquashfs, the rmtree of the finally
\* clause, the container session.
BootBlock(p) ==
    CASE p = "boot_e1" -> "boot_extract"
      [] p = "boot_e2" -> "boot_squash"
      [] p = "boot_e3" -> "boot_rmtree"
      [] p = "boot_e4" -> "session"

\* ElevatedPrivileges.__enter__ at one of the four with-statements of
\* Sdk.bootstrap.
Bootstrap_elevate ==
    /\ pc \in {"boot_e1", "boot_e2", "boot_e3", "boot_e4"}
    /\ IF priv.euid = 0 \/ priv.egid = 0
       THEN /\ Raise("nested_elevation")
            /\ pc' = "unwind"
            /\ UNCHANGED <<priv, current_mask, ctx>>
       ELSE /\ priv' = Elevated(priv)
            /\ current_mask' = priv.umask
            /\ ctx' = Append(ctx, "elevated")
            /\ pc' = BootBlock(pc)
            /\ NoRaise
    /\ UNCHANGED <<cfg, loops, mounts, bundle, device, ownDev, log, cmds,
                   assembled, ovlopts, resolv, listing, entered, loops0,
                   upper, outfile, squashed, config_json,
                   launches, entry, issued>>

\* tarfile.open(rootfs_archive) and tar.extractall(...).
Bootstrap_extract ==
    /\ pc = "boot_extract"
    /\ \/ NoRaise /\ pc' = "boot_leave1"
       \/ Raise("tar") /\ pc' = "unwind"
    /\ UNCHANGED <<ctx, cfg, loops, mounts, bundle, device, ownDev, log, cmds,
                   priv, current_mask, assembled, ovlopts, resolv, listing,
                   entered, loops0, upper, outfile, squashed, config_json,
                   launches, entry, issued>>

\* Variant of Sdk.bootstrap in which the elevated rmtree of the extracted
\* archive follows mksquashfs inside the same with-block.
Bootstrap_squash_nested ==
    /\ pc = "boot_squash"
    /\ \/ NoRaise /\ pc' = "boot_e3"
       \/ Raise("mksquashfs") /\ pc' = "unwind"
    /\ UNCHANGED <<ctx, cfg, loops, mounts, bundle, device, ownDev, log, cmds,
                   priv, current_mask, assembled, ovlopts, resolv, listing,
                   entered, loops0, upper, outfile, squashed, config_json,
                   launches, entry, issued>>

\* mksquashfs(tmp_bootstrap_squashfs_path, tarimage_contents_path, ...) and
\* os.chown of the image.
Bootstrap_squash ==
    /\ pc = "boot_squash"
    /\ \/ NoRaise /\ pc' = "boot_leave2"
       \/ Raise("mksquashfs") /\ pc' = "unwind"
    /\ UNCHANGED <<ctx, cfg, loops, mounts, bundle, device, ownDev, log, cmds,
                   priv, current_mask, assembled, ovlopts, resolv, listing,
                   entered, loops0, upper, outfile, squashed, config_json,
                   launches, entry, issued>>

\* shutil.rmtree(tarimage_contents_path) in the finally clause.
Bootstrap_rmtree ==
    /\ pc = "boot_rmtree"
    /\ \/ NoRaise /\ pc' = "boot_leave3"
       \/ Raise("rmtree_tar") /\ pc' = "unwind"
    /\ UNCHANGED <<ctx, cfg, loops, mounts, bundle, device, ownDev, log, cmds,
                   priv, current_mask, assembled, ovlopts, resolv, listing,
                   entered, loops0, upper, outfile, squashed, config_json,
                   launches, entry, issued>>

\* ElevatedPrivileges.__exit__ when a with-block of the first step is left
\* normally; after the finally clause an exception of the try block that is
\* still in flight goes on propagating.
Bootstrap_release ==
    /\ pc \in {"boot_leave1", "boot_leave2", "boot_leave3"}
    /\ priv' = Restored(priv, current_mask)
    /\ ctx' = Pop(ctx)
    /\ pc' = CASE pc = "boot_leave1" -> "boot_e2"
                [] pc = "boot_leave2" -> "boot_finally"
                [] pc = "boot_leave3" ->
                      IF exc = "none" THEN "boot_e4" ELSE "unwind"
    /\ UNCHANGED <<cfg, loops, mounts, bundle, device, ownDev, exc, orig, log,
                   cmds, current_mask, assembled, ovlopts, resolv, listing,
                   entered, loops0, upper, outfile, squashed, config_json,
                   launches, entry, issued>>

\* The try block is left, normally or by an exception: the finally clause
\* is entered.
Bootstrap_finally ==
    /\ pc = "boot_finally" \/ Leaving("try")
    /\ ctx' = Pop(ctx)
    /\ pc' = "boot_e3"
    /\ UNCHANGED <<cfg, loops, mounts, bundle, device, ownDev, exc, orig, log,
                   cmds, priv, current_mask, assembled, ovlopts, resolv,
                   listing, entered, loops0,
                   upper, outfile, squashed, config_json,
                   launches, entry, issued>>

\* tmp_bootstrap_dir.__exit__
Bootstrap_tmpdir_exit ==
    /\ Leaving("tmpdir")
    /\ ctx' = Pop(ctx)
    /\ UNCHANGED <<pc, cfg, loops, mounts, bundle, device, ownDev, exc, orig,
                   log, cmds, priv, current_mask, assembled, ovlopts, resolv,
                   listing, entered, loops0,
                   upper, outfile, squashed, config_json,
                   launches, entry, issued>>

\* Sdk.bootstrap, the block of the container session: the statement that
\* follows the run calls made so far.  The three for-loops run the prelude
\* commands, the steps and the postlude commands; a loop over an empty list
\* has no iteration.
Bootstrap_next_statement(runs) ==
    LET ran(phase) == Cardinality({i \in 1..Len(runs) : runs[i].phase = phase})
    IN  IF ran("prelude") < cfg.prelude THEN "boot_prelude"
        ELSE IF ran("steps") < cfg.steps THEN "boot_steps"
        ELSE IF ran("postlude") < cfg.postlude THEN "boot_postlude"
        ELSE "boot_snapshot"

\* Sdk.bootstrap: sess.run(command=["sh", "-c", "> /.sdk"], ...), which
\* creates the file /.sdk in the root filesystem.
Bootstrap_marker ==
    /\ pc = "boot_marker"
    /\ \E outcome \in RunOutcomes :
          /\ ContainerSession_run("marker", "touch", outcome)
          /\ pc' = IF outcome = "ok"
                   THEN Bootstrap_next_statement(cmds')
                   ELSE "unwind"
    /\ UNCHANGED <<ctx, cfg, loops, mounts, bundle, device, ownDev, log, priv,
                   current_mask, assembled, ovlopts, resolv,
                   listing, entered, loops0,
                   outfile, squashed,
                   entry, issued>>

\* Variant of the prelude loop of Sdk.bootstrap that goes on after a failed
\* command (as with run(..., check=False)).
Bootstrap_prelude_unchecked ==
    /\ pc = "boot_prelude"
    /\ Ran("prelude") < cfg.prelude
    /\ \E outcome \in {"ok", "launcher_failed"} :
          /\ cmds' = Append(cmds, [phase |-> "prelude",
                                   idx |-> Ran("prelude") + 1,
                                   cmd |-> "true", outcome |-> outcome])
          /\ pc' = Bootstrap_next_statement(cmds')
    /\ UNCHANGED <<ctx, cfg, loops, mounts, bundle, device, ownDev, exc,
                   orig, log, priv, current_mask, assembled, ovlopts, resolv,
                   listing, entered, loops0,
                   upper, outfile, squashed, config_json,
                   launches, entry, issued>>

\* Sdk.bootstrap: "for cmd in self.prelude_commands: sess.run(...)".
Bootstrap_prelude ==
    /\ pc = "boot_prelude"
    /\ Ran("prelude") < cfg.prelude
    /\ \E outcome \in RunOutcomes :
          /\ ContainerSession_run("prelude", "true", outcome)
          /\ pc' = IF outcome = "ok"
                   THEN Bootstrap_next_statement(cmds')
                   ELSE "unwind"
    /\ UNCHANGED <<ctx, cfg, loops, mounts, bundle, device, ownDev, log, priv,
                   current_mask, assembled, ovlopts, resolv,
                   listing, entered, loops0,
                   outfile, squashed,
                   entry, issued>>

\* Sdk.bootstrap: "if steps: for cmd in steps: sess.run(...)".
Bootstrap_steps ==
    /\ pc = "boot_steps"
    /\ Ran("steps") < cfg.steps
    /\ \E outcome \in RunOutcomes :
          /\ ContainerSession_run("steps", "touch", outcome)
          /\ pc' = IF outcome = "ok"
                   THEN Bootstrap_next_statement(cmds')
                   ELSE "unwind"
    /\ UNCHANGED <<ctx, cfg, loops, mounts, bundle, device, ownDev, log, priv,
                   current_mask, assembled, ovlopts, resolv,
                   listing, entered, loops0,
                   outfile, squashed,
                   entry, issued>>

\* Sdk.bootstrap: "for cmd in self.postlude_commands: sess.run(...)".
Bootstrap_postlude ==
    /\ pc = "boot_postlude"
    /\ Ran("postlude") < cfg.postlude
    /\ \E outcome \in RunOutcomes :
          /\ ContainerSession_run("postlude", "true", outcome)
          /\ pc' = IF outcome = "ok"
                   THEN Bootstrap_next_statement(cmds')
                   ELSE "unwind"
    /\ UNCHANGED <<ctx, cfg, loops, mounts, bundle, device, ownDev, log, priv,
                   current_mask, assembled, ovlopts, resolv,
                   listing, entered, loops0,
                   outfile, squashed,
                   entry, issued>>

\* Sdk.bootstrap: sess.snapshot(squashfs_path), ContainerSession.snapshot of
\* the root filesystem to the image path of the cache.
Bootstrap_snapshot ==
    /\ pc = "boot_snapshot"
    /\ IF cfg.readonly_root
       THEN /\ Raise("snapshot_error")
            /\ pc' = "unwind"
            /\ UNCHANGED <<outfile, squashed>>
       ELSE \E outcome \in SnapshotOutcomes, leftover \in {Absent, Partial} :
               /\ mksquashfs(RootfsContents, outcome, leftover)
               /\ IF outcome = "ok"
                  THEN NoRaise /\ pc' = "boot_chown"
                  ELSE Raise("snapshot_error") /\ pc' = "unwind"
    /\ UNCHANGED <<ctx, cfg, loops, mounts, bundle, device, ownDev, log, cmds,
                   priv, current_mask, assembled, ovlopts, resolv, listing,
                   entered, loops0, upper, config_json,
                   launches, entry, issued>>

\* Sdk.bootstrap: os.chown(squashfs_path, uid, gid), the last statement of
\* the session block.
Bootstrap_chown ==
    /\ pc = "boot_chown"
    /\ \/ /\ log' = Append(log, [op |-> "chown", res |-> "image",
                                  dev |-> None, ok |-> TRUE])
          /\ NoRaise
       \/ Raise("chown") /\ UNCHANGED log
    /\ pc' = "unwind"
    /\ UNCHANGED <<ctx, cfg, loops, mounts, bundle, device, ownDev, cmds,
                   priv, current_mask, assembled, ovlopts, resolv, listing,
                   entered, loops0, upper, outfile, squashed, config_json,
                   launches, entry, issued>>

\* The steps of Sdk.bootstrap and of Sdk.session.
BootNext ==
    \/ Bootstrap_tmpdir_enter
    \/ Bootstrap_elevate
    \/ Bootstrap_extract
    \/ Bootstrap_squash
    \/ Bootstrap_rmtree
    \/ Bootstrap_release
    \/ Bootstrap_finally
    \/ Bootstrap_tmpdir_exit
    \/ Bootstrap_marker
    \/ Bootstrap_prelude
    \/ Bootstrap_steps
    \/ Bootstrap_postlude
    \/ Bootstrap_snapshot
    \/ Bootstrap_chown
    \/ SdkNext

BootSpec == BootInit /\ [][BootNext]_vars

\* ------------------------------------------- privileges.py (the process)
\* The uids, gids and umasks a process is started with, or is told to lower
\* itself to (SUDO_UID, SUDO_GID); 0 is root.
Uids == {0, 1000, 1001}
Gids == {0, 100}
Umasks == {2, 18, 63}

\* setresuid(2) and setresgid(2): an unprivileged process (effective uid
\* not 0) may only set each id to one of its current real, effective or
\* saved-set ids.
CanSetUid(p, r, e, s) == p.euid = 0 \/ {r, e, s} \subseteq {p.ruid, p.euid, p.suid}
CanSetGid(p, r, e, s) == p.euid = 0 \/ {r, e, s} \subseteq {p.rgid, p.egid, p.sgid}
setresuid(p, r, e, s) == [p EXCEPT !.ruid = r, !.euid = e, !.suid = s]
setresgid(p, r, e, s) == [p EXCEPT !.rgid = r, !.egid = e, !.sgid = s]

\* init_lower_privileges(uid, gid): setresgid(gid, gid, 0) and then
\* setresuid(uid, uid, 0).
init_lower_privileges(p, uid, gid) ==
    setresuid(setresgid(p, gid, gid, 0), uid, uid, 0)

\* The state of a process that has not started any container session.
NoSession ==
    /\ ctx = <<>>
    /\ loops = [d \in Devices |-> "free"]
    /\ mounts = {}
    /\ bundle = FALSE
    /\ device = None
    /\ ownDev = None
    /\ exc = "none"
    /\ orig = "none"
    /\ log = <<>>
    /\ cmds = <<>>
    /\ current_mask = 0
    /\ assembled = FALSE
    /\ ovlopts = <<>>
    /\ resolv = FALSE
    /\ listing = <<>>
    /\ entered = FALSE
    /\ loops0 = loops
    /\ upper = {}
    /\ outfile = Absent
    /\ squashed = 0
    /\ config_json = NoConfig
    /\ launches = <<>>
    /\ entry = NoEntry
    /\ issued = <<>>

\* A process started with the real, effective and saved-set ids
\* (start_uid, start_gid) and with SUDO_UID = uid, SUDO_GID = gid.
PrivConfigs ==
    [start_uid : Uids, start_gid : Gids, uid : Uids, gid : Gids,
     umask : Umasks]

PrivInit ==
    /\ cfg \in PrivConfigs
    /\ pc = "import"
    /\ priv = [ruid |-> cfg.start_uid, euid |-> cfg.start_uid,
               suid |-> cfg.start_uid, rgid |-> cfg.start_gid,
               egid |-> cfg.start_gid, sgid |-> cfg.start_gid,
               umask |-> cfg.umask]
    /\ NoSession

\* The import of the cosmk package: a process that runs as root (effective
\* uid and gid 0) lowers itself to SUDO_UID, SUDO_GID.
Import_lower_privileges ==
    /\ pc = "import"
    /\ priv' = IF priv.euid = 0 /\ priv.egid = 0
               THEN init_lower_privileges(priv, cfg.uid, cfg.gid)
               ELSE priv
    /\ pc' = "idle"
    /\ UNCHANGED <<ctx, cfg, loops, mounts, bundle, device, ownDev, exc, orig,
                   log, cmds, current_mask, assembled, ovlopts, resolv,
                   listing, entered, loops0,
                   upper, outfile, squashed, config_json,
                   launches, entry, issued>>

\* The process was started as root and has lowered its privileges.
Lowered == pc # "import" /\ cfg.start_uid = 0 /\ cfg.start_gid = 0

\* Variant of ElevatedPrivileges.__enter__ that refuses only an effective
\* uid of 0, not an effective gid of 0.
Process_elevate_uid_only ==
    /\ pc \in {"idle", "bracket"}
    /\ IF priv.euid = 0
       THEN /\ Raise("nested_elevation")
            /\ pc' = "unwind"
            /\ UNCHANGED <<priv, current_mask, ctx>>
       ELSE IF ~CanSetGid(priv, 0, 0, priv.egid)
       THEN /\ Raise("permission")
            /\ pc' = "unwind"
            /\ UNCHANGED <<priv, current_mask, ctx>>
       ELSE IF ~CanSetUid(setresgid(priv, 0, 0, priv.egid), 0, 0, priv.euid)
       THEN /\ Raise("permission")
            /\ pc' = "unwind"
            /\ priv' = setresgid(priv, 0, 0, priv.egid)
            /\ UNCHANGED <<current_mask, ctx>>
       ELSE /\ priv' = Elevated(priv)
            /\ current_mask' = priv.umask
            /\ ctx' = Append(ctx, "elevated")
            /\ pc' = "bracket"
            /\ NoRaise
    /\ UNCHANGED <<cfg, loops, mounts, bundle, device, ownDev, log, cmds,
                   assembled, ovlopts, resolv, listing, entered, loops0,
                   upper, outfile, squashed, config_json,
                   launches, entry, issued>>

\* "with ElevatedPrivileges():" entered by the process, outside of any
\* elevation or from the block of another one.  __enter__ refuses an
\* effective uid or gid of 0; setresgid and then setresuid raise
\* PermissionError when the kernel refuses them; then the umask is set.
Process_elevate ==
    /\ pc \in {"idle", "bracket"}
    /\ IF priv.euid = 0 \/ priv.egid = 0
       THEN /\ Raise("nested_elevation")
            /\ pc' = "unwind"
            /\ UNCHANGED <<priv, current_mask, ctx>>
       ELSE IF ~CanSetGid(priv, 0, 0, priv.egid)
       THEN /\ Raise("permission")
            /\ pc' = "unwind"
            /\ UNCHANGED <<priv, current_mask, ctx>>
       ELSE IF ~CanSetUid(setresgid(priv, 0, 0, priv.egid), 0, 0, priv.euid)
       THEN /\ Raise("permission")
            /\ pc' = "unwind"
            /\ priv' = setresgid(priv, 0, 0, priv.egid)
            /\ UNCHANGED <<current_mask, ctx>>
       ELSE /\ priv' = Elevated(priv)
            /\ current_mask' = priv.umask
            /\ ctx' = Append(ctx, "elevated")
            /\ pc' = "bracket"
            /\ NoRaise
    /\ UNCHANGED <<cfg, loops, mounts, bundle, device, ownDev, log, cmds,
                   assembled, ovlopts, resolv, listing, entered, loops0,
                   upper, outfile, squashed, config_json,
                   launches, entry, issued>>

\* The operation bracketed by the elevation returns or raises.
Process_operation ==
    /\ pc = "bracket"
    /\ \/ NoRaise
       \/ Raise("operation_failed")
    /\ pc' = "unwind"
    /\ UNCHANGED <<ctx, cfg, loops, mounts, bundle, device, ownDev, log, cmds,
                   priv, current_mask, assembled, ovlopts, resolv, listing,
                   entered, loops0, upper, outfile, squashed, config_json,
                   launches, entry, issued>>

\* Every with-statement is left; the process handles the exception, if
\* any, and goes on (it may elevate again).
Process_continue ==
    /\ pc = "unwind"
    /\ ctx = <<>>
    /\ pc' = "idle"
    /\ exc' = "none"
    /\ UNCHANGED <<ctx, cfg, loops, mounts, bundle, device, ownDev, orig,
                   log, cmds, priv, current_mask, assembled, ovlopts, resolv,
                   listing, entered, loops0,
                   upper, outfile, squashed, config_json,
                   launches, entry, issued>>

PrivNext ==
    \/ Import_lower_privileges
    \/ Process_elevate
    \/ Process_operation
    \/ ElevatedPrivileges_exit
    \/ Process_continue

PrivSpec == PrivInit /\ [][PrivNext]_vars

\* ------------------------- container.py (Container and its _runc_config)
\* Mountpoints a caller hands to the Container (additional_mountpoints).
CallerMountpoints ==
    { ContainerMountpoint("/src", "/mnt", "bind"),
      ContainerMountpoint("tmpfs", "/tmp", "tmpfs"),
      ContainerMountpoint("/run/udev", "/dev/udev", "bind") }

\* ContainerDeviceBinding(host_device): the type and the numbers are read
\* from the device node of the host.
ContainerDeviceBinding(host_device, type, major, minor) ==
    [host_device |-> host_device, container_device |-> host_device,
     device_type |-> type, device_major |-> major, device_minor |-> minor]

\* Device nodes of the host that a caller binds into the Container.
HostDevices ==
    { ContainerDeviceBinding("/dev/kvm", "c", 10, 232),
      ContainerDeviceBinding("/dev/fuse", "c", 10, 229),
      ContainerDeviceBinding("/dev/loop0", "b", 7, 0) }

\* The lists of at most n elements of S.
SeqsUpTo(S, n) == UNION {[1..k -> S] : k \in 0..n}

\* Capabilities a caller adds to the set of its Container
\* (sdk_container.capabilities.update(set(self.additional_capabilities))).
AdditionalCapabilities ==
    {{}, {"CAP_SYS_ADMIN"}, {"CAP_NET_ADMIN", "CAP_SYS_PTRACE"}}

\* Container(...) with its additional_mountpoints and device_bindings.
RuncConfigs ==
    [readonly_root : BOOLEAN, shared_host_netns : BOOLEAN,
     capabilities : {DefaultCapabilities \cup a : a \in AdditionalCapabilities},
     additional_mountpoints : SeqsUpTo(CallerMountpoints, MaxMounts),
     device_bindings : SeqsUpTo(HostDevices, MaxBindings)]

RuncInit ==
    /\ cfg \in RuncConfigs
    /\ pc = "runc_config"
    /\ priv = [ruid |-> 1000, euid |-> 1000, suid |-> 0,
               rgid |-> 100, egid |-> 100, sgid |-> 0, umask |-> 2]
    /\ NoSession

\* self.container._runc_config(command=command, ...) for a command.
Container_runc_config ==
    /\ pc = "runc_config"
    /\ \E command \in {"true", "touch"} :
          config_json' = runc_config(cfg, command)
    /\ pc' = "done"
    /\ UNCHANGED <<ctx, cfg, loops, mounts, bundle, device, ownDev, exc, orig,
                   log, cmds, priv, current_mask, assembled, ovlopts, resolv,
                   listing, entered, loops0, upper, outfile, squashed,
                   launches, entry, issued>>

RuncNext == Container_runc_config

RuncSpec == RuncInit /\ [][RuncNext]_vars

\* ------------------------- mount.py, fs.py, container.py (mount objects)
\* A path is written as the flag "begins with a slash" and the texts
\* between its slashes; "" is the empty text that a doubled or a trailing
\* slash leaves.  The empty relative path is the empty string, which
\* Python treats like None ("if upperdir").
PathComponents == {"a", ".", "..", ""}

MaxParts == 2

Paths ==
    {p \in [abs : BOOLEAN, parts : SeqsUpTo(PathComponents, MaxParts)] :
        p.parts # <<>> => p.parts[1] # ""}

NoPath == [abs |-> FALSE, parts |-> <<>>]

\* os.getcwd()
Cwd == [abs |-> TRUE, parts |-> <<"w">>]

\* The loop of posixpath.normpath over the components of a path.
RECURSIVE normpath_comps(_, _, _)
normpath_comps(comps, new_comps, initial_slashes) ==
    IF comps = <<>> THEN new_comps
    ELSE LET comp == Head(comps)
             rest == Tail(comps)
         IN  IF comp \in {"", "."}
             THEN normpath_comps(rest, new_comps, initial_slashes)
             ELSE IF \/ comp # ".."
                     \/ (~initial_slashes /\ new_comps = <<>>)
                     \/ (new_comps # <<>> /\ Top(new_comps) = "..")
             THEN normpath_comps(rest, Append(new_comps, comp),
                                 initial_slashes)
             ELSE IF new_comps # <<>>
             THEN normpath_comps(rest, Pop(new_comps), initial_slashes)
             ELSE normpath_comps(rest, new_comps, initial_slashes)

\* posixpath.normpath: "path or '.'" for a relative path that normalizes to
\* nothing.
normpath(p) ==
    LET comps == normpath_comps(p.parts, <<>>, p.abs)
    IN  [abs |-> p.abs,
         parts |-> IF ~p.abs /\ comps = <<>> THEN <<".">> ELSE comps]

\* posixpath.join(a, b)
join(a, b) ==
    IF b.abs THEN b
    ELSE [abs |-> a.abs,
          parts |-> a.parts \o (IF b.parts = <<>> THEN <<"">> ELSE b.parts)]

\* os.path.abspath
abspath(p) == normpath(IF p.abs THEN p ELSE join(Cwd, p))

\* The text of a path.
PathText(p) ==
    (IF p.abs THEN <<"/">> ELSE <<>>)
        \o JoinText([i \in 1..Len(p.parts) |-> <<p.parts[i]>>], "/")

\* Mount options a caller passes: each is a text, and "," is a piece of
\* its own (as in an SELinux context with categories).
MountOptions ==
    { <<"ro">>, <<"size=10g">>, <<"context=", "s0:c1", ",", "c2">>,
      <<"noexec", ",", "nosuid">> }

MaxOpts == 2

OptionLists == SeqsUpTo(MountOptions, MaxOpts)

\* options and any(("," in x for x in options))
HasComma(options) ==
    \E i \in 1..Len(options) :
        \E j \in 1..Len(options[i]) : options[i][j] = ","

\* The command line that mount() builds:
\* mount [-t type] [-o opt,opt...] source abspath(target)
mount_cmdline(source, target, type, options) ==
    [argv0 |-> "mount", t |-> type, o |-> JoinText(options, ","),
     options |-> options, source |-> source, target |-> abspath(target)]

\* Variant of mount() that joins the options without looking at them.
mount_function_unchecked(source, target, type, options, ok) ==
    /\ issued' = Append(issued, mount_cmdline(source, target, type, options))
    /\ IF ok THEN NoRaise ELSE Raise("mount")

\* mount(source, target, type, options): the options are checked, then
\* the command is run; ok is its outcome.
mount_function(source, target, type, options, ok) ==
    IF HasComma(options)
    THEN /\ Raise("ValueError")
         /\ UNCHANGED issued
    ELSE /\ issued' = Append(issued,
                             mount_cmdline(source, target, type, options))
         /\ IF ok THEN NoRaise ELSE Raise("mount")

\* Additional options a caller gives to OverlayfsMount.
OverlayExtraOptions ==
    { <<>>, << <<"index=off">> >>, << <<"upperdir=", "/x">> >>,
      << <<"workdir=", "/y">> >>, << <<"context=", "s0:c1", ",", "c2">> >> }

\* The directories a caller gives to OverlayfsMount as upperdir and workdir.
UpperDirs == {NoPath, [abs |-> TRUE, parts |-> <<"u">>]}
WorkDirs == {NoPath, [abs |-> FALSE, parts |-> <<"k">>]}

\* The arguments of Mountpoint(...), of mount(...), of
\* ContainerMountpoint(...) and of OverlayfsMount(...).
MountRequests ==
    [kind : {"Mountpoint", "mount", "ContainerMountpoint"},
     source : {"tmpfs"}, target : Paths, type : {"tmpfs"},
     options : OptionLists]
    \cup
    [kind : {"OverlayfsMount"},
     mergeddir : {[abs |-> TRUE, parts |-> <<"m">>]},
     lowerdir : {<<[abs |-> TRUE, parts |-> <<"l">>]>>},
     upperdir : UpperDirs, workdir : WorkDirs,
     options : OverlayExtraOptions]

MountInit ==
    /\ cfg \in MountRequests
    /\ pc = "construct"
    /\ priv = [ruid |-> 0, euid |-> 0, suid |-> 0,
               rgid |-> 0, egid |-> 0, sgid |-> 0, umask |-> RootUmask]
    /\ NoSession

\* Mountpoint.__init__
Mountpoint_init ==
    /\ pc = "construct"
    /\ cfg.kind = "Mountpoint"
    /\ IF HasComma(cfg.options)
       THEN /\ Raise("ValueError")
            /\ pc' = "done"
            /\ UNCHANGED entry
       ELSE /\ entry' = [kind |-> "Mountpoint", source |-> cfg.source,
                         target |-> abspath(cfg.target), type |-> cfg.type,
                         options |-> cfg.options]
            /\ pc' = "enter"
            /\ NoRaise
    /\ UNCHANGED <<ctx, cfg, loops, mounts, bundle, device, ownDev, log, cmds,
                   priv, current_mask, assembled, ovlopts, resolv, listing,
                   entered, loops0, upper, outfile, squashed, config_json,
                   launches, issued>>

\* Mountpoint.__enter__: mount(self.source, self.target, self.type,
\* self.options)
Mountpoint_enter ==
    /\ pc = "enter"
    /\ entry.kind = "Mountpoint"
    /\ \E ok \in BOOLEAN :
          mount_function(entry.source, entry.target, entry.type,
                         entry.options, ok)
    /\ pc' = "done"
    /\ UNCHANGED <<ctx, cfg, loops, mounts, bundle, device, ownDev, log, cmds,
                   priv, current_mask, assembled, ovlopts, resolv, listing,
                   entered, loops0, upper, outfile, squashed, config_json,
                   launches, entry>>

\* A caller of mount(source, target, type, options).
Call_mount ==
    /\ pc = "construct"
    /\ cfg.kind = "mount"
    /\ \E ok \in BOOLEAN :
          mount_function(cfg.source, cfg.target, cfg.type, cfg.options, ok)
    /\ pc' = "done"
    /\ UNCHANGED <<ctx, cfg, loops, mounts, bundle, device, ownDev, log, cmds,
                   priv, current_mask, assembled, ovlopts, resolv, listing,
                   entered, loops0, upper, outfile, squashed, config_json,
                   launches, entry>>

\* ContainerMountpoint.__init__: the target is checked, then the options.
ContainerMountpoint_init ==
    /\ pc = "construct"
    /\ cfg.kind = "ContainerMountpoint"
    /\ IF abspath(cfg.target) # cfg.target \/ HasComma(cfg.options)
       THEN /\ Raise("ValueError")
            /\ UNCHANGED entry
       ELSE /\ entry' = [kind |-> "ContainerMountpoint",
                         source |-> cfg.source, target |-> cfg.target,
                         type |-> cfg.type, options |-> cfg.options]
            /\ NoRaise
    /\ pc' = "done"
    /\ UNCHANGED <<ctx, cfg, loops, mounts, bundle, device, ownDev, log, cmds,
                   priv, current_mask, assembled, ovlopts, resolv, listing,
                   entered, loops0, upper, outfile, squashed, config_json,
                   launches, issued>>

\* x.startswith("lowerdir=") or x.startswith("upperdir=") or
\* x.startswith("workdir=") for some additional option x.
RedefinesDirs(options) ==
    \E i \in 1..Len(options) :
        options[i][1] \in {"lowerdir=", "upperdir=", "workdir="}

\* Variant of OverlayfsMount.__init__ that takes any upperdir and workdir.
OverlayfsMount_init_unchecked ==
    /\ pc = "construct"
    /\ cfg.kind = "OverlayfsMount"
    /\ IF RedefinesDirs(cfg.options)
       THEN /\ Raise("ValueError")
            /\ pc' = "done"
            /\ UNCHANGED entry
       ELSE /\ entry' =
                 [kind |-> "OverlayfsMount",
                  mergeddir |-> abspath(cfg.mergeddir),
                  lowerdir |-> [i \in 1..Len(cfg.lowerdir) |->
                                   abspath(cfg.lowerdir[i])],
                  upperdir |-> IF cfg.upperdir # NoPath
                               THEN abspath(cfg.upperdir) ELSE NoPath,
                  workdir |-> IF cfg.workdir # NoPath
                              THEN abspath(cfg.workdir) ELSE NoPath,
                  additional_options |-> cfg.options]
            /\ pc' = "overlay_enter"
            /\ NoRaise
    /\ UNCHANGED <<ctx, cfg, loops, mounts, bundle, device, ownDev, log, cmds,
                   priv, current_mask, assembled, ovlopts, resolv, listing,
                   entered, loops0, upper, outfile, squashed, config_json,
                   launches, issued>>

\* OverlayfsMount.__init__: upperdir and workdir are given together or not
\* at all, and no additional option names one of the directories.
OverlayfsMount_init ==
    /\ pc = "construct"
    /\ cfg.kind = "OverlayfsMount"
    /\ IF \/ (cfg.upperdir # NoPath /\ cfg.workdir = NoPath)
          \/ (cfg.upperdir = NoPath /\ cfg.workdir # NoPath)
          \/ RedefinesDirs(cfg.options)
       THEN /\ Raise("ValueError")
            /\ pc' = "done"
            /\ UNCHANGED entry
       ELSE /\ entry' =
                 [kind |-> "OverlayfsMount",
                  mergeddir |-> abspath(cfg.mergeddir),
                  lowerdir |-> [i \in 1..Len(cfg.lowerdir) |->
                                   abspath(cfg.lowerdir[i])],
                  upperdir |-> IF cfg.upperdir # NoPath
                               THEN abspath(cfg.upperdir) ELSE NoPath,
                  workdir |-> IF cfg.workdir # NoPath
                              THEN abspath(cfg.workdir) ELSE NoPath,
                  additional_options |-> cfg.options]
            /\ pc' = "overlay_enter"
            /\ NoRaise
    /\ UNCHANGED <<ctx, cfg, loops, mounts, bundle, device, ownDev, log, cmds,
                   priv, current_mask, assembled, ovlopts, resolv, listing,
                   entered, loops0, upper, outfile, squashed, config_json,
                   launches, issued>>

\* OverlayfsMount.__enter__: the options are put together, the Mountpoint
\* is built from them (Mountpoint.__init__ checks them) and entered.
OverlayfsMount_enter_mountpoint ==
    /\ pc = "overlay_enter"
    /\ entry.kind = "OverlayfsMount"
    /\ LET options ==
               overlay_options(
                   [i \in 1..Len(entry.lowerdir) |->
                       PathText(entry.lowerdir[i])],
                   PathText(entry.upperdir), PathText(entry.workdir),
                   entry.additional_options)
       IN  IF HasComma(options)
           THEN /\ Raise("ValueError")
                /\ UNCHANGED issued
           ELSE \E ok \in BOOLEAN :
                    mount_function("overlayfs", entry.mergeddir, "overlay",
                                   options, ok)
    /\ pc' = "done"
    /\ UNCHANGED <<ctx, cfg, loops, mounts, bundle, device, ownDev, log, cmds,
                   priv, current_mask, assembled, ovlopts, resolv, listing,
                   entered, loops0, upper, outfile, squashed, config_json,
                   launches, entry>>

MountNext ==
    \/ Mountpoint_init
    \/ Mountpoint_enter
    \/ Call_mount
    \/ ContainerMountpoint_init
    \/ OverlayfsMount_init
    \/ OverlayfsMount_enter_mountpoint

MountSpec == MountInit /\ [][MountNext]_vars

\* ------------------------------------------ sdk.py (the environment)
\* Names of environment variables and property keys are texts (sequences
\* of pieces).  str.format of an index yields its decimal digits.
Str(i) ==
    CASE i = 0 -> "0" [] i = 1 -> "1" [] i = 2 -> "2" [] i = 3 -> "3"
      [] i = 4 -> "4" [] i = 5 -> "5"

\* "CURRENT_PRODUCT_PROPERTY_{}".format(idx)
PropertyVar(idx) == <<"CURRENT_PRODUCT_PROPERTY_", Str(idx)>>

\* dict.update: the entries of e are set in d.
update(d, e) ==
    [n \in DOMAIN d \cup DOMAIN e |-> IF n \in DOMAIN e THEN e[n] ELSE d[n]]

\* Container.__init__: default_env.
default_env ==
    [n \in {<<"PATH">>, <<"TERM">>} |->
        IF n = <<"PATH">> THEN "/usr/local/sbin:..." ELSE "xterm"]

\* Product.properties: a dict in the order of the properties file, modelled
\* as the list of its (key, value) pairs.  The keys are distinct, made of
\* [a-zA-Z0-9_]+ parts joined by "." (validate_properties), and "version"
\* is one of them.
PropertyKeys == {<<"version">>, <<"arch">>, <<"efi", ".", "sign">>}
PropertyValue(key) ==
    CASE key = <<"version">> -> "1.0.0"
      [] key = <<"arch">> -> "x86_64"
      [] key = <<"efi", ".", "sign">> -> "yes"
\* Largest number of properties of a product.
MaxProps == 2
PropertyLists ==
    {l \in UNION {[1..n -> PropertyKeys] : n \in 1..MaxProps} :
        /\ \A i, j \in 1..Len(l) : i # j => l[i] # l[j]
        /\ \E i \in 1..Len(l) : l[i] = <<"version">>}

\* properties[key]
PropertyOf(properties, key) == PropertyValue(key)

\* The variables an SDK recipe or a caller of Sdk.session may set: any, also
\* ones that the session injects or that the container defines by default.
UserNames ==
    {<<"PATH">>, <<"LANG">>, <<"CURRENT_ACTION">>, PropertyVar(1)}
ConfiguredEnvs(value) ==
    {[n \in names |-> value] : names \in SUBSET UserNames}

\* The "CURRENT_*" variables of the update call at lines 403-414.
current_env(properties, action_name) ==
    [n \in {<<"CURRENT_PRODUCT">>, <<"CURRENT_PRODUCT_VERSION">>,
            <<"CURRENT_PRODUCT_TAINTED_VERSION">>, <<"CURRENT_RECIPE">>,
            <<"CURRENT_RECIPE_INSTRUMENTATION_LEVEL">>, <<"CURRENT_ACTION">>,
            <<"CURRENT_SDK_PRODUCT">>, <<"CURRENT_SDK_RECIPE">>} |->
        CASE n = <<"CURRENT_PRODUCT">> -> "product.name"
          [] n = <<"CURRENT_PRODUCT_VERSION">> ->
                PropertyOf(properties, <<"version">>)
          [] n = <<"CURRENT_PRODUCT_TAINTED_VERSION">> -> "tainted_version"
          [] n = <<"CURRENT_RECIPE">> -> "recipe.name"
          [] n = <<"CURRENT_RECIPE_INSTRUMENTATION_LEVEL">> -> "level"
          [] n = <<"CURRENT_ACTION">> -> action_name
          [] n = <<"CURRENT_SDK_PRODUCT">> -> "sdk.product.name"
          [] n = <<"CURRENT_SDK_RECIPE">> -> "sdk.recipe.name"]

\* "for idx, key in enumerate(properties): env.update({
\* "CURRENT_PRODUCT_PROPERTY_{}".format(idx): properties[key]})"
property_env(properties) ==
    [n \in {PropertyVar(i - 1) : i \in 1..Len(properties)} |->
        LET i == CHOOSE k \in 1..Len(properties) : PropertyVar(k - 1) = n
        IN  PropertyOf(properties, properties[i])]

\* {"CURRENT_PRODUCT_PROPERTIES": " ".join(propkeys_ordered_list)}; the
\* value is a text.
properties_env(properties) ==
    [n \in {<<"CURRENT_PRODUCT_PROPERTIES">>} |-> JoinText(properties, " ")]

\* Variant of the environment of Sdk.session in which the caller's
\* variables are applied last.
session_env_caller_last(sdk_env, overloaded_env, properties, action_name) ==
    update(update(update(update(sdk_env,
                                current_env(properties, action_name)),
                         property_env(properties)),
                  properties_env(properties)),
           overloaded_env)

\* Sdk.session, lines 400-424: the environment of the session.
session_env(sdk_env, overloaded_env, properties, action_name) ==
    update(update(update(update(sdk_env, overloaded_env),
                         current_env(properties, action_name)),
                  property_env(properties)),
           properties_env(properties))

\* Sdk(env=...).session(action_name, recipe, env=...); an absent env (None)
\* is the empty dict.
EnvRequests ==
    [env : ConfiguredEnvs("sdk"), overloaded_env : ConfiguredEnvs("caller"),
     properties : PropertyLists, action_name : {"build"}]

EnvInit ==
    /\ cfg \in EnvRequests
    /\ pc = "env"
    /\ priv = [ruid |-> 1000, euid |-> 1000, suid |-> 0,
               rgid |-> 100, egid |-> 100, sgid |-> 0, umask |-> 2]
    /\ NoSession

\* Sdk.session up to the with-statement: env is built; it is the env of the
\* prelude and postlude runs and of the SdkSession.
Sdk_session_env ==
    /\ pc = "env"
    /\ entry' = session_env(cfg.env, cfg.overloaded_env, cfg.properties,
                            cfg.action_name)
    /\ pc' = "env_run"
    /\ UNCHANGED <<ctx, cfg, loops, mounts, bundle, device, ownDev, exc, orig,
                   log, cmds, priv, current_mask, assembled, ovlopts, resolv,
                   listing, entered, loops0, upper, outfile, squashed,
                   config_json, launches, issued>>

\* A run of the session (prelude, SdkSession.run, postlude):
\* ContainerSession.run(..., env=env, ...) lays env over a copy of
\* default_env and hands the result to _runc_config.
ContainerSession_run_env ==
    /\ pc = "env_run"
    /\ Len(issued) < MaxBody
    /\ issued' = Append(issued, update(default_env, entry))
    /\ UNCHANGED <<pc, ctx, cfg, loops, mounts, bundle, device, ownDev, exc,
                   orig, log, cmds, priv, current_mask, assembled, ovlopts,
                   resolv, listing, entered, loops0, upper, outfile, squashed,
                   config_json, launches, entry>>

EnvNext ==
    \/ Sdk_session_env
    \/ ContainerSession_run_env

EnvSpec == EnvInit /\ [][EnvNext]_vars

\* ------------------------------------------- fs.py (two sessions at once)
\* Two sessions run by two processes on the same host, both on the rootfs
\* image of one SDK (Sdk.session: the same sdk_rootfs_path).  Each process
\* runs the SquashfsMount of its session; the loop table and the mount
\* table are the kernel's and are shared, whereas pc, device, ownDev,
\* listing, exc and orig hold one value per session.
Sessions == {"A", "B"}

\* The steps of the two processes interleave in any order.
PairInit ==
    /\ cfg = [rootfs |-> "img", readonly_root |-> TRUE]
    /\ pc = [s \in Sessions |-> "open_loop"]
    /\ loops = [d \in Devices |-> "free"]
    /\ loops0 = loops
    /\ mounts = {}
    /\ device = [s \in Sessions |-> None]
    /\ ownDev = [s \in Sessions |-> None]
    /\ listing = [s \in Sessions |-> <<>>]
    /\ exc = [s \in Sessions |-> "none"]
    /\ orig = [s \in Sessions |-> "none"]
    /\ log = <<>>
    /\ ctx = <<>>
    /\ bundle = FALSE
    /\ cmds = <<>>
    /\ priv = [ruid |-> 0, euid |-> 0, suid |-> 1000,
               rgid |-> 0, egid |-> 0, sgid |-> 100, umask |-> RootUmask]
    /\ current_mask = 2
    /\ assembled = FALSE
    /\ ovlopts = <<>>
    /\ resolv = FALSE
    /\ entered = FALSE
    /\ upper = {}
    /\ outfile = Absent
    /\ squashed = 0
    /\ config_json = NoConfig
    /\ launches = <<>>
    /\ entry = NoEntry
    /\ issued = <<>>

\* What no step of the two SquashfsMount scopes changes.
PairFrame ==
    UNCHANGED <<ctx, cfg, bundle, cmds, priv, current_mask, assembled,
                ovlopts, resolv, entered, loops0, upper, outfile, squashed,
                config_json, launches, entry, issued>>

\* raise e in the process of session s.
RaiseIn(s, e) ==
    /\ exc' = [exc EXCEPT ![s] = e]
    /\ orig' = [orig EXCEPT ![s] = IF orig[s] = "none" THEN e ELSE orig[s]]

\* The log entries of the two-session model name the session and tell
\* whether a detach was deferred by the kernel.
AcqBy(s, res, dev) ==
    [op |-> "acq", res |-> res, dev |-> dev, ok |-> TRUE, by |-> s,
     lazy |-> FALSE]
RelBy(s, res, dev, ok, lazy) ==
    [op |-> "rel", res |-> res, dev |-> dev, ok |-> ok, by |-> s,
     lazy |-> lazy]

\* A filesystem is mounted from loop device d.
Busy(table, d) == \E m \in table : m.source = d

\* "losetup -d" succeeded on device d while it was mounted: the kernel
\* detaches it when its last mount goes away.
DetachPending(d) ==
    \E i \in 1..Len(log) :
        /\ log[i].op = "rel" /\ log[i].res = "loop" /\ log[i].dev = d
        /\ log[i].ok /\ log[i].lazy
        /\ \A j \in (i + 1)..Len(log) :
              ~(log[j].op = "acq" /\ log[j].res = "loop" /\ log[j].dev = d)

\* close_loop(device) by session s: "losetup -d <device>".  The command
\* fails on a device that is not attached; on a device in use it succeeds
\* and the detach is deferred.
close_loop_by(s, dev) ==
    \E ok \in BOOLEAN :
        /\ ok => loops[dev] # "free"
        /\ loops' = IF ok /\ ~Busy(mounts, dev)
                    THEN [loops EXCEPT ![dev] = "free"] ELSE loops
        /\ log' = Append(log, RelBy(s, "loop", dev, ok, ok /\ Busy(mounts, dev)))
        /\ IF ok THEN UNCHANGED <<exc, orig>> ELSE RaiseIn(s, "close_loop")

\* LoopDevice.__exit__ of session s.
LoopDevice_exit_by(s) ==
    IF device[s] = None
    THEN /\ RaiseIn(s, "no_device_attr")
         /\ UNCHANGED <<loops, log>>
    ELSE close_loop_by(s, device[s])

\* LoopDevice.__enter__ of session s: open_loop, "losetup -r -f <backfile>".
Pair_open_loop(s) ==
    /\ pc[s] = "open_loop"
    /\ \/ \E d \in Devices :
             /\ loops[d] = "free"
             /\ loops' = [loops EXCEPT ![d] = RealPath(cfg.rootfs)]
             /\ ownDev' = [ownDev EXCEPT ![s] = d]
             /\ log' = Append(log, AcqBy(s, "loop", d))
             /\ pc' = [pc EXCEPT ![s] = "scan"]
             /\ UNCHANGED <<exc, orig>>
       \/ /\ RaiseIn(s, "open_loop")
          /\ pc' = [pc EXCEPT ![s] = "done"]
          /\ UNCHANGED <<loops, ownDev, log>>
    /\ UNCHANGED <<mounts, device, listing>>
    /\ PairFrame

\* LoopDevice.__enter__ of session s: loop_devices().
Pair_loop_devices(s) ==
    /\ pc[s] = "scan"
    /\ \/ \E l \in loop_devices(loops) :
             /\ listing' = [listing EXCEPT ![s] = l]
             /\ pc' = [pc EXCEPT ![s] = "resolve"]
             /\ UNCHANGED <<exc, orig>>
       \/ /\ RaiseIn(s, "loop_devices")
          /\ pc' = [pc EXCEPT ![s] = "loop_enter_cleanup"]
          /\ UNCHANGED listing
    /\ UNCHANGED <<loops, mounts, device, ownDev, log>>
    /\ PairFrame

\* LoopDevice.__enter__ of session s: the for/else over the reversed
\* listing.
Pair_resolve(s) ==
    /\ pc[s] = "resolve"
    /\ LET d == ScanLoopDevices(listing[s], cfg.rootfs)
       IN  IF d = None
           THEN /\ RaiseIn(s, "loop_not_found")
                /\ pc' = [pc EXCEPT ![s] = "loop_enter_cleanup"]
                /\ UNCHANGED device
           ELSE /\ device' = [device EXCEPT ![s] = d]
                /\ pc' = [pc EXCEPT ![s] = "squashfs_mount"]
                /\ UNCHANGED <<exc, orig>>
    /\ listing' = [listing EXCEPT ![s] = <<>>]
    /\ UNCHANGED <<loops, mounts, ownDev, log>>
    /\ PairFrame

\* LoopDevice.__enter__ of session s: "except: self.__exit__(...); raise";
\* SquashfsMount.__enter__: "except: self._loopdev.__exit__(...); raise";
\* SquashfsMount.__exit__, second statement.
Pair_loopdev_exit(s) ==
    /\ pc[s] \in {"loop_enter_cleanup", "squashfs_enter_cleanup",
                  "squashfs_exit_loop"}
    /\ LoopDevice_exit_by(s)
    /\ pc' = [pc EXCEPT ![s] = "done"]
    /\ UNCHANGED <<mounts, device, ownDev, listing>>
    /\ PairFrame

\* SquashfsMount.__enter__ of session s: the mount of its loop device on
\* the rootfs directory of its own bundle; the mount command fails on a
\* device that is not attached.
Pair_mount(s) ==
    /\ pc[s] = "squashfs_mount"
    /\ \/ /\ loops[device[s]] # "free"
          /\ mounts' = mounts \cup
                          {[source |-> device[s], target |-> <<s, "rootfs">>,
                            type |-> "squashfs", options |-> << <<"ro">> >>]}
          /\ log' = Append(log, AcqBy(s, "squashfs", None))
          /\ pc' = [pc EXCEPT ![s] = "body"]
          /\ UNCHANGED <<exc, orig>>
       \/ /\ RaiseIn(s, "mount_squashfs")
          /\ pc' = [pc EXCEPT ![s] = "squashfs_enter_cleanup"]
          /\ UNCHANGED <<mounts, log>>
    /\ UNCHANGED <<loops, device, ownDev, listing>>
    /\ PairFrame

\* SquashfsMount.__exit__ of session s, first statement: umount of its
\* rootfs directory.  A loop device whose detach was deferred is detached
\* when its last mount goes away.
Pair_umount(s) ==
    /\ pc[s] = "body"
    /\ \E ok \in BOOLEAN :
          /\ mounts' = IF ok THEN {m \in mounts : m.target # <<s, "rootfs">>}
                       ELSE mounts
          /\ loops' = [d \in Devices |->
                          IF DetachPending(d) /\ ~Busy(mounts', d)
                          THEN "free" ELSE loops[d]]
          /\ log' = Append(log, RelBy(s, "squashfs", None, ok, FALSE))
          /\ IF ok THEN UNCHANGED <<exc, orig>>
             ELSE RaiseIn(s, "umount_squashfs")
          /\ pc' = [pc EXCEPT ![s] = IF ok THEN "squashfs_exit_loop"
                                     ELSE "done"]
    /\ UNCHANGED <<device, ownDev, listing>>
    /\ PairFrame

PairNext ==
    \E s \in Sessions :
        \/ Pair_open_loop(s)
        \/ Pair_loop_devices(s)
        \/ Pair_resolve(s)
        \/ Pair_loopdev_exit(s)
        \/ Pair_mount(s)
        \/ Pair_umount(s)

PairSpec == PairInit /\ [][PairNext]_vars

\* =========================================================== properties
\* Positions of the release attempts in the log.
RelIdx == {i \in 1..Len(log) : log[i].op = "rel"}

\* Position at which a resource was acquired.
AcqPos(r) == CHOOSE i \in 1..Len(log) : log[i].op = "acq" /\ log[i].res = r

\* The resources acquired so far.
Acquired == {log[i].res : i \in {j \in 1..Len(log) : log[j].op = "acq"}}

\* The resources of the release attempts, in the order of the attempts.
ReleaseOrder ==
    LET rels == SelectSeq(log, LAMBDA e : e.op = "rel")
    IN  [i \in 1..Len(rels) |-> rels[i].res]

\* Release attempts on a resource.
Attempts(r) == {i \in RelIdx : log[i].res = r}

\* Every umount and losetup -d command issued so far succeeded.
ReleaseCommandsOk == \A i \in RelIdx : log[i].res # "bundle" => log[i].ok

FullReleaseOrder ==
    IF cfg.readonly_root
    THEN <<"squashfs", "loop", "bundle">>
    ELSE <<"overlay", "tmpfs", "squashfs", "loop", "bundle">>

\* C1: closing an assembled ContainerSession releases its resources in the
\* reverse order of their acquisition, whether the body ended normally or a
\* run raised: no resource is released after one acquired earlier, and when
\* the release commands succeed the order is overlay, tmpfs, squashfs, loop
\* device, bundle directory (read-only: squashfs, loop device, bundle).
C1_CloseReleasesInReverseOrder ==
    assembled =>
        /\ \A i, j \in RelIdx :
              i < j => AcqPos(log[i].res) > AcqPos(log[j].res)
        /\ (pc = "done" /\ ReleaseCommandsOk) => ReleaseOrder = FullReleaseOrder

\* C1 witness: a writable session whose body raised was closed, all five
\* resources released in order.
C1_Witness ==
    /\ pc = "done"
    /\ assembled
    /\ ~cfg.readonly_root
    /\ orig = "launcher_failed"
    /\ ReleaseOrder = <<"overlay", "tmpfs", "squashfs", "loop", "bundle">>

\* C2 (as claimed): when assembly fails, by the time the error reaches the
\* caller everything acquired was released in reverse order and, the release
\* commands having succeeded, no loop device and no mount of the session
\* remains attached.
C2_AssemblyFailureReleasesAll ==
    (pc = "done" /\ ~assembled /\ ReleaseCommandsOk) =>
        /\ \A i, j \in RelIdx :
              i < j => AcqPos(log[i].res) > AcqPos(log[j].res)
        /\ SessionMounts = {}
        /\ ownDev # None => loops[ownDev] = "free"

\* C3 (as claimed): at the end of the teardown of an assembled session every
\* acquired resource had exactly one release attempt, whichever release steps
\* failed; in particular the loop device after a failed squashfs umount.
C3_EveryReleaseAttemptedOnce ==
    (pc = "done" /\ assembled) =>
        \A r \in Acquired : Cardinality(Attempts(r)) = 1

\* C4 (as claimed): the error the caller receives is the first error raised;
\* an error of a cleanup step never replaces it.
C4_CleanupErrorNeverReplaces ==
    pc = "done" => exc = orig

C6_SquashfsMountRoundTrip ==
    (pc = "done" /\ cfg.readonly_root /\ assembled /\ orig = "none") =>
        /\ loops = loops0
        /\ mounts = {}

\* C7 (as claimed): once losetup -f succeeded, a failure before the squashfs
\* mount succeeds (listing the loop devices, resolving the node, the mount
\* command) has the session's loop device detached before the error reaches
\* the caller.
C7_LoopDeviceNeverLeaks ==
    (pc \in {"unwind", "done"}
        /\ orig \in {"loop_devices", "loop_not_found", "mount_squashfs"}) =>
        \E i \in Attempts("loop") : log[i].dev = ownDev

\* Entries of the loop table whose backing file equals LoopDevice.backfile.
Matching == {d \in Devices : loops[d] = cfg.rootfs}

\* The scan of the listing is over (its outcome is in device and exc).
Scanned ==
    \/ pc = "squashfs_mount"
    \/ pc = "loop_enter_cleanup" /\ orig = "loop_not_found"

LastListed(lst, backfile) ==
    LET hits == {i \in 1..Len(lst) : lst[i].backfile = backfile}
    IN  IF hits = {} THEN None
        ELSE lst[CHOOSE i \in hits : \A j \in hits : j <= i].device

RunsOf(phase) == SelectSeq(cmds, LAMBDA c : c.phase = phase)

\* Positions of the failed run calls of a phase.
FailedRuns(phase) ==
    {i \in 1..Len(cmds) : cmds[i].phase = phase /\ cmds[i].outcome # "ok"}

\* C9 (as claimed): once the prelude completed and the SdkSession was handed
\* to the caller, the postlude commands have run by the time the teardown of
\* the mount stack starts (all of them, or up to one that failed), also when
\* a command of the body raised.
C9_PostludeRunsWhenBodyRaised ==
    (entered /\ pc \in {"unwind", "squashfs_exit_loop", "done"}) =>
        \/ Ran("postlude") = cfg.postlude
        \/ FailedRuns("postlude") # {}

\* C10: the prelude commands run once each in configured order, each one
\* after the previous one succeeded and all of them before any other
\* command; when one fails nothing runs after it, the SdkSession is not
\* handed out, and an error reaches the caller: the prelude's error unless a
\* teardown step failed as well.
C10_PreludeInOrderOrAbort ==
    LET pre == RunsOf("prelude")
        allOk == Len(pre) = cfg.prelude /\ FailedRuns("prelude") = {}
    IN  /\ Len(pre) <= cfg.prelude
        /\ \A i \in 1..Len(pre) : pre[i].idx = i
        /\ \A i \in 1..(Len(pre) - 1) : pre[i].outcome = "ok"
        /\ \A i, j \in 1..Len(cmds) :
              (cmds[i].phase = "prelude" /\ cmds[j].phase # "prelude") => i < j
        /\ (entered \/ \E i \in 1..Len(cmds) : cmds[i].phase # "prelude")
              => allOk
        /\ \A i \in FailedRuns("prelude") :
              /\ i = Len(cmds)
              /\ ~entered
              /\ pc \in {"unwind", "squashfs_exit_loop", "done"}
              /\ exc # "none"
              /\ orig = cmds[i].outcome
              /\ (\A k \in RelIdx : log[k].ok) => exc = orig

\* C10 witness: the second of two prelude commands failed and the caller
\* got that error; nothing else was run.
C10_Witness ==
    /\ pc = "done"
    /\ cfg.prelude = 2
    /\ cfg.postlude > 0
    /\ Len(cmds) = 2
    /\ cmds[1].outcome = "ok"
    /\ cmds[2] = [phase |-> "prelude", idx |-> 2, cmd |-> "true",
                  outcome |-> "launcher_failed"]
    /\ exc = "launcher_failed"


\* The last run call made so far.
LastRun == cmds[Len(cmds)]

\* C11 (as claimed): a run called on the ContainerSession after the session
\* was closed raises a session-state error, and it neither writes a runtime
\* specification (config.json) nor invokes the launcher (config.json is
\* written exactly in the outcomes in which the launcher is invoked).
C11_RunAfterCloseRejected ==
    pc = "closed_run" =>
        /\ LastRun.outcome \notin Launched
        /\ exc = "session_state_error"

\* C12: a run of the session body that fails (the launcher exits non-zero,
\* or no launcher binary is found) raises that failure to the caller and
\* leaves the mount table, the loop table, the session's loop device, the
\* bundle directory and the stack of entered context managers as they were;
\* the root filesystem is still mounted in the existing bundle directory, so
\* that a further run is possible.
C12_FailedRunKeepsSession ==
    [][(pc = "body" /\ Len(cmds') = Len(cmds) + 1
          /\ cmds'[Len(cmds')].outcome # "ok")
        => /\ cmds'[Len(cmds')].outcome \in {"launcher_failed", "no_launcher"}
           /\ exc' = cmds'[Len(cmds')].outcome
           /\ UNCHANGED <<mounts, loops, device, bundle, ctx, upper>>
           /\ bundle'
           /\ RootfsMounted']_vars

\* C12 witness: the second run of a writable session found no launcher
\* after the first one created a file; the overlay is still the innermost
\* entered context manager and the rootfs still holds the file.
C12_Witness ==
    /\ Len(cmds) = 2
    /\ cmds[1].outcome = "ok"
    /\ LastRun.phase = "body"
    /\ LastRun.outcome = "no_launcher"
    /\ exc = "no_launcher"
    /\ ctx # <<>> /\ Top(ctx) = "overlay"
    /\ bundle
    /\ File("marker", 1) \in RootfsContents


\* The file at the output path of snapshot before the session started.
InitialOutfile == IF cfg.output_exists THEN OldFile ELSE Absent

\* C13: snapshot called on a session whose container has readonly_root set
\* raises a snapshot error and has no side effect on the filesystem: the
\* output path keeps the state it had before the session (no file, or the
\* file that was there, neither removed nor rewritten), the mksquashfs
\* utility is never invoked, and mounts, loop devices and the bundle
\* directory are as before the call.
C13_ReadonlySnapshotRejected ==
    /\ [](cfg.readonly_root => (outfile = InitialOutfile /\ squashed = 0))
    /\ [][(ContainerSession_snapshot /\ cfg.readonly_root)
            => /\ exc' = "snapshot_error"
               /\ UNCHANGED <<outfile, squashed, mounts, loops, bundle,
                              upper, config_json>>]_vars

\* C13 witness: a snapshot of a read-only session was refused while a file
\* was present at the output path; the file is still the old one.
C13_Witness ==
    /\ cfg.readonly_root
    /\ cfg.output_exists
    /\ exc = "snapshot_error"
    /\ pc = "unwind"
    /\ outfile = OldFile
    /\ squashed = 0

\* The files created so far by successful runs of the command "touch".
Markers ==
    {File("marker", i) : i \in {j \in 1..Len(cmds) :
        cmds[j].cmd = "touch" /\ cmds[j].outcome = "ok"}}

\* C14: when snapshot succeeds in a session with a writable rootfs, the
\* image written at the output path holds exactly the contents of the rootfs
\* directory at the time of the call: the files of the base image, every
\* file created by an earlier successful run of the session, the
\* resolv.conf the session may have copied in, and nothing else.
C14_SnapshotHoldsRootfs ==
    [][(ContainerSession_snapshot /\ exc' = "none")
        => /\ ~cfg.readonly_root
           /\ outfile' = Image(RootfsContents)
           /\ BaseImage \subseteq outfile'.contents
           /\ Markers \subseteq outfile'.contents
           /\ outfile'.contents \subseteq
                 BaseImage \cup Markers \cup {File("resolv.conf", 0)}]_vars

\* C14 witness: an image that holds the files of two successful runs.
C14_Witness ==
    /\ outfile.kind = "image"
    /\ squashed = 1
    /\ Len(cmds) = 2
    /\ {File("marker", 1), File("marker", 2)} \subseteq outfile.contents
    /\ File("base", 0) \in outfile.contents


\* C15: elevate fails when the effective uid or the effective gid is
\* already 0, and the failed call changes nothing: the real, effective and
\* saved-set uid and gid and the umask are the same after it as before it,
\* and no elevation is entered.
C15_ElevateRefusedWhenRoot ==
    [][(Process_elevate /\ (priv.euid = 0 \/ priv.egid = 0))
        => /\ exc' = "nested_elevation"
           /\ UNCHANGED <<priv, current_mask, ctx>>]_vars

\* C15 witness: an elevate attempted from the block of another elevation
\* was refused; the identity is still the elevated one of the outer block.
C15_Witness ==
    /\ pc = "unwind"
    /\ ctx = <<"elevated">>
    /\ exc = "nested_elevation"
    /\ priv.euid = 0 /\ priv.egid = 0
    /\ priv.suid = 1000 /\ priv.sgid = 100
    /\ priv.umask = RootUmask

\* The identity and umask of the process once it lowered its privileges.
LoweredIdentity ==
    [ruid |-> cfg.uid, euid |-> cfg.uid, suid |-> 0,
     rgid |-> cfg.gid, egid |-> cfg.gid, sgid |-> 0, umask |-> cfg.umask]

\* C16: an elevate followed by its release is a round trip.  An elevate
\* succeeds only from the lowered identity; the release that leaves the
\* block, whether the bracketed operation returned or raised, gives back
\* that identity: real and effective uid and gid are the unprivileged ones
\* again, the saved-set uid and gid are 0 again, and the umask is the one in
\* force before the elevate.
C16_ElevateReleaseRoundTrip ==
    /\ [][(Process_elevate /\ ctx' # ctx)
            => (priv = LoweredIdentity /\ current_mask' = priv.umask)]_vars
    /\ [][ElevatedPrivileges_exit
            => /\ priv' = LoweredIdentity
               /\ priv'.suid = 0 /\ priv'.sgid = 0
               /\ priv'.umask = cfg.umask]_vars

\* C16 witness: the bracketed operation raised and the elevation was
\* released; the process has its unprivileged identity and umask 0o077.
C16_Witness ==
    /\ pc = "unwind"
    /\ ctx = <<>>
    /\ exc = "operation_failed"
    /\ priv = LoweredIdentity
    /\ priv.euid = 1000 /\ priv.egid = 100
    /\ priv.umask = 63

\* C17 (as claimed): in every state after the process lowered its
\* privileges, the saved-set uid and gid are those of the unprivileged user.
C17_SavedSetIsUnprivileged ==
    Lowered => (priv.suid = cfg.uid /\ priv.sgid = cfg.gid)

\* C17 (amended): after the process lowered its privileges to a uid and a
\* gid other than 0, the unprivileged ids are in the real and effective
\* slots and the saved-set ids are 0 while no elevation is entered; they are
\* in the saved-set slots and the real and effective ids are 0 while one is
\* entered.  elevate sets the real and effective ids to 0 and the saved-set
\* ids to the effective ids held before the call.
C17_UnprivilegedIdInOneSlot ==
    /\ []((Lowered /\ cfg.uid # 0 /\ cfg.gid # 0) =>
            IF ctx = <<>>
            THEN /\ priv.ruid = cfg.uid /\ priv.euid = cfg.uid
                 /\ priv.rgid = cfg.gid /\ priv.egid = cfg.gid
                 /\ priv.suid = 0 /\ priv.sgid = 0
            ELSE /\ priv.ruid = 0 /\ priv.euid = 0
                 /\ priv.rgid = 0 /\ priv.egid = 0
                 /\ priv.suid = cfg.uid /\ priv.sgid = cfg.gid)
    /\ [][(Process_elevate /\ ctx' # ctx)
            => /\ priv'.ruid = 0 /\ priv'.euid = 0
               /\ priv'.rgid = 0 /\ priv'.egid = 0
               /\ priv'.suid = priv.euid /\ priv'.sgid = priv.egid]_vars

\* C17 witness: the process is elevated for the second time, after a first
\* elevation whose operation raised; the saved-set ids are the unprivileged
\* ones.
C17_Witness ==
    /\ Lowered
    /\ pc = "bracket"
    /\ orig = "operation_failed"
    /\ priv.euid = 0 /\ priv.suid = 1001
    /\ priv.egid = 0 /\ priv.sgid = 100


\* Number of elevations entered and not yet released.
ElevationDepth == Cardinality({i \in 1..Len(ctx) : ctx[i] = "elevated"})

\* C18: in every execution of Sdk.bootstrap and of Sdk.session, also when
\* a bracketed step fails, the number of elevations in force is 0 or 1, and
\* ElevatedPrivileges.__enter__ is only ever called while it is 0 (so the
\* call is never refused as a nested elevation).
C18_ElevationNeverNested ==
    /\ [](ElevationDepth <= 1)
    /\ [][(Bootstrap_elevate \/ ElevatedPrivileges_enter)
            => (ElevationDepth = 0 /\ exc' # "nested_elevation")]_vars

\* C18 witness: the extraction of the archive failed in its elevated block;
\* the elevation of the finally clause is in force as the only one.
C18_Witness ==
    /\ cfg.bootstrap
    /\ pc = "boot_rmtree"
    /\ exc = "tar"
    /\ ElevationDepth = 1
    /\ priv.euid = 0


\* The targets of the seven required system mountpoints.
RequiredTargets ==
    <<"/proc", "/dev", "/dev/pts", "/dev/shm", "/dev/mqueue", "/sys",
      "/sys/fs/cgroup">>

\* C19 (as claimed): in every generated runtime specification the seven
\* required system mountpoints open the mounts list, in the order /proc,
\* /dev, /dev/pts, /dev/shm, /dev/mqueue, /sys, /sys/fs/cgroup, and every
\* caller-supplied mountpoint comes after them.
C19_RequiredMountsFirst ==
    config_json # NoConfig =>
        LET m == config_json.mounts
            n == Len(cfg.additional_mountpoints)
        IN  /\ Len(m) = Len(RequiredTargets) + n
            /\ \A i \in 1..Len(RequiredTargets) :
                  m[i].destination = RequiredTargets[i]
            /\ \A i \in 1..n :
                  m[Len(RequiredTargets) + i] =
                      Mountpoint_as_dict(cfg.additional_mountpoints[i])

\* C20: in every generated runtime specification the device cgroup list
\* is one deny-all rule (allow false, access rwm, no type, major or minor)
\* followed by one allow rule per device binding, in the order of the
\* bindings, each with the type, major and minor of its binding; the
\* devices list has one entry per binding; noNewPrivileges is true.
C20_DeviceCgroupDenyByDefault ==
    config_json # NoConfig =>
        LET r == config_json.cgroup_devices
            d == config_json.devices
            b == cfg.device_bindings
        IN  /\ Len(r) = 1 + Len(b)
            /\ DOMAIN r[1] = {"allow", "access"}
            /\ r[1].allow = FALSE /\ r[1].access = "rwm"
            /\ \A i \in 1..Len(b) :
                  /\ r[i + 1].allow = TRUE
                  /\ r[i + 1].access = "rwm"
                  /\ r[i + 1].type = b[i].device_type
                  /\ r[i + 1].major = b[i].device_major
                  /\ r[i + 1].minor = b[i].device_minor
            /\ Len(d) = Len(b)
            /\ \A i \in 1..Len(b) :
                  /\ d[i].path = b[i].container_device
                  /\ d[i].type = b[i].device_type
                  /\ d[i].major = b[i].device_major
                  /\ d[i].minor = b[i].device_minor
            /\ config_json.noNewPrivileges = TRUE

\* C20 witness: a runtime specification for a Container with two bindings,
\* a character device and a block device.
C20_Witness ==
    /\ config_json # NoConfig
    /\ Len(cfg.device_bindings) = 2
    /\ cfg.device_bindings[1].device_type = "c"
    /\ cfg.device_bindings[2].device_type = "b"
    /\ Len(config_json.cgroup_devices) = 3
    /\ config_json.cgroup_devices[3].major = 7


\* The five capability sets of the runtime specification, as named by the
\* OCI runtime specification.
CapabilitySetNames ==
    {"bounding", "effective", "inheritable", "permitted", "ambient"}

\* C21 (as claimed): every generated runtime specification carries under
\* process.capabilities the five sets bounding, effective, inheritable,
\* permitted and ambient, each equal to the capability set of the
\* Container (the default set and the added capabilities).
C21_FiveCapabilitySets ==
    config_json # NoConfig =>
        /\ DOMAIN config_json.capabilities = CapabilitySetNames
        /\ \A k \in DOMAIN config_json.capabilities :
              config_json.capabilities[k] = cfg.capabilities

\* C22: the namespaces of every generated runtime specification are pid,
\* ipc, uts and mount, and network exactly when the Container does not
\* share the network namespace of the host.
C22_UnsharedNamespaces ==
    config_json # NoConfig =>
        LET ns == {n.type : n \in config_json.namespaces}
        IN  /\ {"pid", "ipc", "uts", "mount"} \subseteq ns
            /\ ns \subseteq {"pid", "ipc", "uts", "mount", "network"}
            /\ ("network" \in ns) <=> ~cfg.shared_host_netns

\* C22 witness: a runtime specification of a Container that shares the
\* network namespace of the host, with four namespaces.
C22_Witness ==
    /\ config_json # NoConfig
    /\ cfg.shared_host_netns
    /\ Cardinality(config_json.namespaces) = 4

\* Some option of the list has a comma in its text.
SomeOptionWithComma(options) ==
    \E i \in 1..Len(options) : "," \in {options[i][j] : j \in DOMAIN options[i]}

\* The kinds of mount entry: the generic primitive, the mount function
\* and the mountpoint of a container.
MountEntryKinds == {"Mountpoint", "mount", "ContainerMountpoint"}

\* C23: when some option of the list given to Mountpoint(...), to
\* ContainerMountpoint(...) or to mount(...) contains a comma, a
\* ValueError is raised, no object is built and no mount command is run;
\* the same holds for the Mountpoint that OverlayfsMount builds from its
\* additional options.
C23_CommaInOptionRejected ==
    SomeOptionWithComma(cfg.options) =>
        /\ issued = <<>>
        /\ cfg.kind \in MountEntryKinds => entry = NoEntry
        /\ pc = "done" => exc = "ValueError"

\* C23 witness: mount() was called with a list whose second option has a
\* comma, and has raised.
C23_Witness ==
    /\ cfg.kind = "mount"
    /\ Len(cfg.options) = 2
    /\ ~SomeOptionWithComma(<<cfg.options[1]>>)
    /\ SomeOptionWithComma(<<cfg.options[2]>>)
    /\ pc = "done"
    /\ exc = "ValueError"

\* The path starts with a slash and has no empty, "." or ".." component.
IsAbsoluteNormalized(p) ==
    /\ p.abs
    /\ \A i \in 1..Len(p.parts) : p.parts[i] \notin {"", ".", ".."}

\* C24 (as claimed): building a Mountpoint or a ContainerMountpoint with
\* a target that is relative or not normalized raises a ValueError; no
\* object is built and no mount command is run with a target other than
\* the path the caller gave.
C24_TargetMustBeNormalized ==
    cfg.kind \in {"Mountpoint", "ContainerMountpoint"} =>
        /\ ~IsAbsoluteNormalized(cfg.target) =>
              /\ entry = NoEntry
              /\ pc = "done" => exc = "ValueError"
        /\ entry # NoEntry => entry.target = cfg.target
        /\ \A i \in 1..Len(issued) : issued[i].target = cfg.target

\* An option of the list begins with the given text.
SomeOptionStarts(options, prefix) ==
    \E i \in 1..Len(options) : options[i][1] = prefix

\* C25: OverlayfsMount(...) with upperdir and no workdir, or workdir and
\* no upperdir, raises a ValueError and builds nothing; an OverlayfsMount
\* that was built has both or neither, and the options of every overlay
\* mount command have upperdir= exactly when they have workdir=.
C25_UpperAndWorkTogether ==
    cfg.kind = "OverlayfsMount" =>
        /\ (cfg.upperdir = NoPath) # (cfg.workdir = NoPath) =>
              /\ entry = NoEntry
              /\ issued = <<>>
              /\ pc = "done" => exc = "ValueError"
        /\ entry # NoEntry =>
              (entry.upperdir = NoPath) = (entry.workdir = NoPath)
        /\ \A i \in 1..Len(issued) :
              SomeOptionStarts(issued[i].options, "upperdir=")
                  <=> SomeOptionStarts(issued[i].options, "workdir=")

\* C25 witness: an overlay mount command was run with both directories,
\* the relative workdir made absolute.
C25_Witness ==
    /\ cfg.kind = "OverlayfsMount"
    /\ Len(issued) = 1
    /\ issued[1].options[2] = <<"upperdir=", "/", "u">>
    /\ issued[1].options[3] = <<"workdir=", "/", "w", "/", "k">>

\* C25 witness of the refusal: an upperdir without a workdir was given and
\* the construction has raised.
C25_WitnessRefused ==
    /\ cfg.kind = "OverlayfsMount"
    /\ cfg.upperdir # NoPath
    /\ cfg.workdir = NoPath
    /\ pc = "done"
    /\ exc = "ValueError"

\* C26: Sdk.session holds one elevation around the whole container
\* session: every with-statement of the session is entered and left
\* inside it, the bundle directory, the mount table and the loop devices
\* change only while the process is root, the identity is restored only
\* when every other with-statement has been left (with no mount of the
\* session and no bundle directory left, unless a release failed), and
\* when Sdk.session is over (normally or with an exception of the prelude, the body, the
\* postlude or the teardown) the real and effective ids are again the
\* unprivileged ones.
C26_ElevationBracketsSession ==
    /\ [](ctx # <<>> =>
            /\ ctx[1] = "elevated"
            /\ priv.euid = 0 /\ priv.egid = 0)
    /\ [][((bundle' # bundle \/ mounts' # mounts \/ loops' # loops) =>
               (priv.euid = 0 /\ priv'.euid = 0))
          /\ ((priv.euid = 0 /\ priv'.euid # 0) =>
               (ctx = <<"elevated">> /\ ctx' = <<>>))
          /\ ((priv.euid = 0 /\ priv'.euid # 0
                   /\ \A k \in RelIdx : log[k].ok) =>
               (~bundle /\ SessionMounts = {}))]_vars
    /\ [](pc = "done" =>
            /\ priv.ruid = 1000 /\ priv.euid = 1000
            /\ priv.rgid = 100 /\ priv.egid = 100)

\* C26 witness: the body failed, the teardown failed too (the bundle
\* directory could not be removed) and Sdk.session is over with the
\* unprivileged identity.
C26_Witness ==
    /\ pc = "done"
    /\ orig = "launcher_failed"
    /\ exc = "rmtree"
    /\ bundle
    /\ priv.euid = 1000
    /\ priv.ruid = 1000

\* C27: every launch reads a config.json that was written by the same run
\* for its own command, and the command line of the launcher is
\* "<runc or docker-runc> run --bundle <bundle_dir> <instance name>" with
\* the bundle directory and the instance name of the session; config.json
\* on disk is the one of the latest launch.
C27_LaunchReadsOwnConfig ==
    /\ \A i \in 1..Len(launches) :
          /\ launches[i].config.args = launches[i].cmd
          /\ launches[i].config # NoConfig
          /\ Len(launches[i].cmdline) = 5
          /\ launches[i].cmdline[1] \in {"runc", "docker-runc"}
          /\ launches[i].cmdline[2] = "run"
          /\ launches[i].cmdline[3] = "--bundle"
          /\ launches[i].cmdline[4] = bundle_dir
          /\ launches[i].cmdline[5] = runc_container_name
    /\ launches # <<>> => config_json = launches[Len(launches)].config
    /\ LET launched == SelectSeq(cmds, LAMBDA c : c.outcome \in Launched)
       IN  /\ Len(launched) = Len(launches)
           /\ \A i \in 1..Len(launches) : launches[i].cmd = launched[i].cmd

\* C27 witness: two launches in one session, for different commands, by
\* docker-runc; the second read its own config.json.
C27_Witness ==
    /\ Len(launches) = 2
    /\ launches[1].cmd = "true"
    /\ launches[2].cmd = "touch"
    /\ launches[1].config # launches[2].config
    /\ launches[2].cmdline[1] = "docker-runc"

\* The run call that the step has just made, if it has made one.
JustRan(outcome) ==
    /\ Len(cmds') = Len(cmds) + 1
    /\ cmds'[Len(cmds')].outcome = outcome

\* C28: a run that finds neither runc nor docker-runc raises the
\* environment error and leaves config.json, the bundle directory, the
\* mounts and the files of the rootfs as they were; no launcher is
\* started and no mount command is run.
C28_NoLauncherTouchesNothing ==
    [][JustRan("no_launcher") =>
          /\ exc' = "no_launcher"
          /\ UNCHANGED <<config_json, launches, bundle, mounts, loops, upper,
                         outfile, squashed, issued>>]_vars

\* C28 witness: a first run was launched and wrote config.json, a second
\* run found no launcher; config.json is still the one of the first run.
C28_Witness ==
    /\ Len(cmds) = 2
    /\ cmds[1].outcome = "ok"
    /\ cmds[2].outcome = "no_launcher"
    /\ exc = "no_launcher"
    /\ Len(launches) = 1
    /\ config_json = launches[1].config
    /\ config_json # NoConfig

\* The steps of the assembly that succeeded, in their order.
AssemblySteps ==
    LET steps == SelectSeq(log, LAMBDA e : e.op \in {"acq", "mkdir"})
    IN  [i \in 1..Len(steps) |-> steps[i].res]

\* The mount of the session at a target, in a mount table.
MountAt(table, target) == CHOOSE m \in table : m.target = target

MountTargets(table) == {m.target : m \in table}

\* C29: the ContainerSession is handed to the caller only when every step
\* of the assembly succeeded, in the fixed order.  Read-only: bundle
\* directory, loop device, squashfs mounted at the rootfs directory, and
\* no tmpfs or overlay mount.  Writable: bundle directory, loop device,
\* squashfs at the lower directory, tmpfs at the scratch directory, the
\* upper and work directories inside the tmpfs, overlay at the rootfs
\* directory with the lower directory as lowerdir and those upper and
\* work directories.
C29_FixedAssemblyOrder ==
    /\ [](assembled =>
            AssemblySteps =
                IF cfg.readonly_root
                THEN <<"bundle", "loop", "squashfs">>
                ELSE <<"bundle", "loop", "squashfs", "tmpfs", "upper_work",
                       "overlay">>)
    /\ [][(~assembled /\ assembled') =>
            /\ bundle'
            /\ device' \in Devices
            /\ loops'[device'] = RealPath(cfg.rootfs)
            /\ IF cfg.readonly_root
               THEN /\ MountTargets(mounts') = {"rootfs"}
                    /\ MountAt(mounts', "rootfs").type = "squashfs"
                    /\ MountAt(mounts', "rootfs").source = device'
               ELSE /\ MountTargets(mounts') = {"lower", "tmpfs", "rootfs"}
                    /\ MountAt(mounts', "lower").type = "squashfs"
                    /\ MountAt(mounts', "lower").source = device'
                    /\ MountAt(mounts', "tmpfs").type = "tmpfs"
                    /\ MountAt(mounts', "rootfs").type = "overlay"
                    /\ SubSeq(MountAt(mounts', "rootfs").options, 1, 3) =
                          << <<"lowerdir=", "lower">>,
                             <<"upperdir=", "tmpfs", "/", "upper">>,
                             <<"workdir=", "tmpfs", "/", "work">> >>]_vars

\* C29 witness: a writable session was handed to the caller, its overlay
\* mounted with the two options of a recent kernel.
C29_Witness ==
    /\ assembled
    /\ pc = "body"
    /\ ~cfg.readonly_root
    /\ Len(AssemblySteps) = 6
    /\ \E m \in mounts : m.type = "overlay" /\ Len(m.options) = 5

\* C29 witness, read-only: the session was handed to the caller with the
\* squashfs image as its only mount.
C29_WitnessReadonly ==
    /\ assembled
    /\ pc = "body"
    /\ cfg.readonly_root
    /\ Cardinality(mounts) = 1

\* C30 (as claimed): whenever a Container that shares the network
\* namespace of the host is assembled, /etc/resolv.conf of the host was
\* copied into its rootfs.
C30_ResolvConfCopied ==
    (assembled /\ cfg.shared_host_netns) => resolv

\* C30 (amended): a session is handed to the caller with /etc/resolv.conf
\* of the host copied into its rootfs exactly when the Container shares
\* the network namespace of the host, its root is writable and the host
\* has the file; the copy is in the rootfs when the session is handed
\* over.
C30_ResolvConfCopiedWhenWritable ==
    /\ [](assembled =>
            (resolv <=> /\ cfg.shared_host_netns
                        /\ ~cfg.readonly_root
                        /\ cfg.host_resolv_conf))
    /\ [][(~assembled /\ assembled' /\ resolv') =>
            /\ File("resolv.conf", 0) \in upper'
            /\ \E m \in mounts' : m.target = "rootfs" /\ m.type = "overlay"]_vars

\* C30 witness: a writable session that shares the network namespace of
\* the host was handed to the caller, the copy made.
C30_Witness ==
    /\ assembled
    /\ pc = "body"
    /\ cfg.shared_host_netns
    /\ ~cfg.readonly_root
    /\ cfg.host_resolv_conf
    /\ resolv
    /\ File("resolv.conf", 0) \in upper

\* The positions of Sdk.session and Container.session once the with-block
\* is being left.
Closing == {"unwind", "squashfs_exit_loop", "done"}

\* The body of the Sdk session ended without an exception.
BodyEndedNormally ==
    /\ entered
    /\ FailedRuns("body") = {}
    /\ pc \in Closing \cup {"postlude"}

\* The run calls of the postlude loop so far.
PostludeRuns == RunsOf("postlude")

\* C31 (as claimed): when the body ended normally, every postlude command
\* has run, once and in configured order, by the time the mount stack is
\* torn down.
C31_EachPostludeRunsOnce ==
    (BodyEndedNormally /\ pc \in Closing) =>
        LET post == RunsOf("postlude")
        IN  /\ Len(post) = cfg.postlude
            /\ \A i \in 1..Len(post) : post[i].idx = i

\* C31 (amended): when the body ended normally the postlude commands run
\* in configured order, at most once each, each after the previous one
\* succeeded, after every command of the body, before any release step
\* and while the process is root; all of them run unless one fails, and
\* nothing runs after one that failed; the failure is raised (it is the
\* error the caller gets unless a release step fails as well), the
\* releases follow in full order when their commands succeed, and the
\* identity is restored.
C31_PostludeInOrderUntilFailure ==
    /\ [](/\ Len(PostludeRuns) <= cfg.postlude
          /\ \A i \in 1..Len(PostludeRuns) : PostludeRuns[i].idx = i
          /\ \A i \in 1..(Len(PostludeRuns) - 1) :
                PostludeRuns[i].outcome = "ok"
          /\ PostludeRuns # <<>> => BodyEndedNormally
          /\ \A i, j \in 1..Len(cmds) :
                (cmds[i].phase # "postlude" /\ cmds[j].phase = "postlude")
                    => i < j
          /\ (BodyEndedNormally /\ pc \in Closing) =>
                (Len(PostludeRuns) = cfg.postlude
                    \/ FailedRuns("postlude") # {})
          /\ \A i \in FailedRuns("postlude") :
                /\ i = Len(cmds)
                /\ pc \in Closing
                /\ exc # "none"
                /\ orig = cmds[i].outcome
                /\ (\A k \in RelIdx : log[k].ok) => exc = orig
          /\ (BodyEndedNormally /\ pc = "done") =>
                /\ priv.ruid = 1000 /\ priv.euid = 1000
                /\ ReleaseCommandsOk =>
                      /\ ReleaseOrder = FullReleaseOrder
                      /\ SessionMounts = {})
    /\ [][Len(PostludeRuns') > Len(PostludeRuns) =>
           (RelIdx = {} /\ priv.euid = 0 /\ Len(ctx) = 5)]_vars

\* C31 witness: the body ended normally, the first of two postlude
\* commands failed, the second was not run, the session was torn down and
\* the caller got the error of the postlude with the identity restored.
C31_Witness ==
    /\ pc = "done"
    /\ cfg.postlude = 2
    /\ FailedRuns("body") = {}
    /\ Len(RunsOf("body")) = 1
    /\ Len(RunsOf("postlude")) = 1
    /\ cmds[Len(cmds)].phase = "postlude"
    /\ exc = "launcher_failed"
    /\ mounts = {}
    /\ ~bundle
    /\ priv.euid = 1000


\* Rank of the phases of the session block of Sdk.bootstrap.
PhaseRank(phase) ==
    CASE phase = "marker" -> 1
      [] phase = "prelude" -> 2
      [] phase = "steps" -> 3
      [] phase = "postlude" -> 4

\* The mksquashfs utility was started on the image path, or the file at the
\* image path is not the one of before the bootstrap.
ImageTouched == squashed > 0 \/ outfile # InitialOutfile

\* The ownership change of the image was made.
ChownDone == \E i \in 1..Len(log) : log[i].op = "chown"

\* Some run call failed.
SomeRunFailed == \E i \in 1..Len(cmds) : cmds[i].outcome # "ok"

\* The state part of C32.
C32_BootstrapState ==
    cfg.bootstrap =>
        /\ \A i, j \in 1..Len(cmds) :
              i < j => \/ PhaseRank(cmds[i].phase) < PhaseRank(cmds[j].phase)
                       \/ /\ cmds[i].phase = cmds[j].phase
                          /\ cmds[i].idx < cmds[j].idx
        /\ Len(RunsOf("marker")) <= 1
        /\ Len(RunsOf("prelude")) <= cfg.prelude
        /\ Len(RunsOf("steps")) <= cfg.steps
        /\ Len(RunsOf("postlude")) <= cfg.postlude
        /\ \A i \in 1..Len(cmds) : cmds[i].outcome # "ok" => i = Len(cmds)
        /\ Cardinality({i \in 1..Len(log) :
                           log[i].op = "acq" /\ log[i].res = "bundle"}) <= 1
        /\ ImageTouched =>
              /\ ~SomeRunFailed
              /\ Len(cmds) = 1 + cfg.prelude + cfg.steps + cfg.postlude
        /\ outfile.kind = "image" =>
              {File("base", 0), File("marker", 1)} \subseteq outfile.contents
        /\ ChownDone => outfile.kind = "image"
        /\ SomeRunFailed =>
              /\ squashed = 0
              /\ outfile = InitialOutfile
              /\ ~ChownDone
              /\ exc # "none"
              /\ orig = LastRun.outcome
        /\ pc = "done" =>
              /\ priv.ruid = 1000 /\ priv.euid = 1000
              /\ priv.rgid = 100 /\ priv.egid = 100
              /\ ctx = <<>>
              /\ (assembled /\ ReleaseCommandsOk) =>
                    /\ ReleaseOrder = FullReleaseOrder
                    /\ SessionMounts = {}

\* C32: Sdk.bootstrap runs, in one container session, the '/.sdk' marker
\* command, the prelude commands, the bootstrap steps and the postlude
\* commands in this order, each while the mount stack is assembled and the
\* privileges elevated, then the snapshot to the image path, then the
\* ownership change.  The snapshot is taken only when every command before
\* it succeeded; when a command fails no later command runs, the file at
\* the image path is neither written nor removed, the error is raised, the
\* mount stack is torn down (completely when the release commands succeed)
\* and the privileges are restored.
C32_BootstrapOrderThenSnapshot ==
    /\ []C32_BootstrapState
    /\ [][(cfg.bootstrap /\ (cmds' # cmds \/ outfile' # outfile
                                            \/ (ChownDone' /\ ~ChownDone)))
            => (assembled /\ RelIdx = {} /\ priv.euid = 0
                          /\ ~SomeRunFailed)]_vars

\* C32 witness: a bootstrap with one prelude command, two steps and one
\* postlude command whose second step failed, over an earlier image: four
\* commands ran, the earlier image is still there, everything is released.
C32_Witness ==
    /\ cfg.bootstrap
    /\ pc = "done"
    /\ cfg.output_exists /\ cfg.prelude = 1 /\ cfg.steps = 2 /\ cfg.postlude = 1
    /\ Len(cmds) = 4
    /\ LastRun.phase = "steps" /\ LastRun.outcome = "launcher_failed"
    /\ outfile = OldFile
    /\ exc = "launcher_failed"
    /\ mounts = {} /\ ~bundle
    /\ priv.euid = 1000

\* A bootstrap with commands in every phase ended without an error: the
\* image was written and re-owned.
BootstrapCompleted ==
    /\ cfg.bootstrap
    /\ pc = "done"
    /\ cfg.prelude = 1 /\ cfg.steps = 2 /\ cfg.postlude = 1
    /\ ChownDone
    /\ exc = "none"


\* At most one losetup -d was issued so far.
DetachedAtMostOnce == Cardinality(Attempts("loop")) <= 1

\* C33 (as claimed): on every path of a session (success, failure while
\* entering, in the body, while exiting) losetup -d is issued at most once
\* for the attach of the session, only after that attach succeeded, and
\* never for a device other than the one that attach bound.
C33_DetachOwnDeviceAtMostOnce ==
    /\ DetachedAtMostOnce
    /\ \A i \in Attempts("loop") : ownDev # None /\ log[i].dev = ownDev


\* The words of a text: its parts between the pieces equal to sep, as a
\* shell script splits the value of a variable.
RECURSIVE Words(_, _)
Words(text, sep) ==
    IF \A i \in 1..Len(text) : text[i] # sep THEN <<text>>
    ELSE LET k == CHOOSE i \in 1..Len(text) :
                     text[i] = sep /\ \A j \in 1..(i - 1) : text[j] # sep
         IN  <<SubSeq(text, 1, k - 1)>>
                \o Words(SubSeq(text, k + 1, Len(text)), sep)

\* The names of the variables that Sdk.session injects.
InjectedNames ==
    DOMAIN current_env(cfg.properties, cfg.action_name)
        \cup {PropertyVar(i - 1) : i \in 1..Len(cfg.properties)}
        \cup {<<"CURRENT_PRODUCT_PROPERTIES">>}

\* C34: the environment of every command of an Sdk session is the SDK's
\* configured environment, overridden by the caller's per-session
\* environment, overridden by the injected CURRENT_* variables (the
\* container's default PATH and TERM lie under all three); and for every
\* property index i, CURRENT_PRODUCT_PROPERTY_i holds the value of the
\* property whose name is the i-th word of CURRENT_PRODUCT_PROPERTIES.
C34_EnvironmentPrecedence ==
    pc = "env_run" =>
        /\ DOMAIN entry =
              DOMAIN cfg.env \cup DOMAIN cfg.overloaded_env \cup InjectedNames
        /\ \A n \in DOMAIN entry :
              IF n \in InjectedNames
              THEN n \in DOMAIN current_env(cfg.properties, cfg.action_name)
                      => entry[n] = current_env(cfg.properties,
                                                cfg.action_name)[n]
              ELSE IF n \in DOMAIN cfg.overloaded_env
                   THEN entry[n] = cfg.overloaded_env[n]
                   ELSE entry[n] = cfg.env[n]
        /\ LET names == Words(entry[<<"CURRENT_PRODUCT_PROPERTIES">>], " ")
           IN  /\ Len(names) = Len(cfg.properties)
               /\ \A i \in 1..Len(names) :
                     /\ names[i] = cfg.properties[i]
                     /\ entry[PropertyVar(i - 1)] =
                           PropertyOf(cfg.properties, names[i])
        /\ \A k \in 1..Len(issued) :
              /\ DOMAIN issued[k] = DOMAIN entry \cup DOMAIN default_env
              /\ \A n \in DOMAIN entry : issued[k][n] = entry[n]
              /\ \A n \in DOMAIN default_env \ DOMAIN entry :
                    issued[k][n] = default_env[n]

\* C34 witness: the SDK and the caller both set LANG, CURRENT_ACTION and
\* CURRENT_PRODUCT_PROPERTY_1, the SDK alone sets PATH, and the product has
\* the properties efi.sign and version in this order; a command was run with
\* the caller's LANG, the SDK's PATH, the injected action and the version
\* as property 1.
C34_Witness ==
    /\ pc = "env_run"
    /\ DOMAIN cfg.env = UserNames
    /\ DOMAIN cfg.overloaded_env = UserNames \ {<<"PATH">>}
    /\ cfg.properties = << <<"efi", ".", "sign">>, <<"version">> >>
    /\ Len(issued) = 1
    /\ issued[1][<<"LANG">>] = "caller"
    /\ issued[1][<<"PATH">>] = "sdk"
    /\ issued[1][<<"TERM">>] = "xterm"
    /\ issued[1][<<"CURRENT_ACTION">>] = "build"
    /\ issued[1][PropertyVar(0)] = "yes"
    /\ issued[1][PropertyVar(1)] = "1.0.0"
    /\ issued[1][<<"CURRENT_PRODUCT_PROPERTIES">>] =
          <<"efi", ".", "sign", " ", "version">>


\* C35: possible() agrees with elevate.  In every state of the process in
\* which possible() is true the saved-set uid and gid are 0 and the real and
\* effective uid and gid are all non-zero, and an elevate called in such a
\* state is not refused as a nested elevation: it succeeds.
C35_PossibleAgreesWithElevate ==
    /\ [](possible(priv) =>
            /\ priv.suid = 0 /\ priv.sgid = 0
            /\ priv.ruid # 0 /\ priv.euid # 0
            /\ priv.rgid # 0 /\ priv.egid # 0)
    /\ [][(Process_elevate /\ possible(priv))
            => (exc' = "none" /\ ctx' = Append(ctx, "elevated")
                              /\ priv' = Elevated(priv))]_vars

\* C35 witness: the process lowered itself to uid 1001 and gid 100, where
\* possible() is true, and has elevated from there.
C35_Witness ==
    /\ Lowered
    /\ cfg.uid = 1001 /\ cfg.gid = 100
    /\ possible(LoweredIdentity)
    /\ pc = "bracket"
    /\ ctx = <<"elevated">>
    /\ priv = Elevated(LoweredIdentity)
    /\ exc = "none"


\* The losetup -d logged at position i was issued on a device that an
\* earlier successful losetup -d had detached already.
DetachedBefore(i) ==
    \E j \in 1..(i - 1) :
        /\ log[j].op = "rel" /\ log[j].res = "loop" /\ log[j].ok
        /\ log[j].dev = log[i].dev
        /\ \A k \in (j + 1)..(i - 1) :
              ~(log[k].op = "acq" /\ log[k].res = "loop"
                                 /\ log[k].dev = log[i].dev)

\* No command of the two sessions failed so far, except a losetup -d on a
\* device that was detached already.
PairCommandsOk ==
    /\ \A s \in Sessions : orig[s] \in {"none", "close_loop"}
    /\ \A i \in 1..Len(log) :
          ~log[i].ok => (log[i].res = "loop" /\ DetachedBefore(i))

\* C36 (as claimed): when two sessions in two processes attach loop devices
\* for the same image, under every interleaving each session records the
\* device its own losetup -f attached, each issues losetup -d for its own
\* device only, and once both have closed (no command having failed, other
\* than a detach of a device detached already) no loop device is left
\* attached.
C36_EachSessionOwnDevice ==
    /\ \A s \in Sessions : device[s] # None => device[s] = ownDev[s]
    /\ \A i \in 1..Len(log) :
          (log[i].op = "rel" /\ log[i].res = "loop")
              => log[i].dev = ownDev[log[i].by]
    /\ ((\A s \in Sessions : pc[s] = "done") /\ PairCommandsOk)
          => \A d \in Devices : loops[d] = "free"


\* The complete mount stack of the session is in place: the squashfs image
\* and, for a writable session, the tmpfs and the overlay on the rootfs
\* directory.
StackInPlace ==
    /\ bundle
    /\ {m.target : m \in mounts} =
          IF cfg.readonly_root THEN {"rootfs"} ELSE {"lower", "tmpfs", "rootfs"}
    /\ cfg.readonly_root \/ RootfsWritable

\* C37 (as claimed): the launcher is invoked only while the complete mount
\* stack of the session is in place: never before the assembly completed
\* and never after the teardown began.
C37_LaunchOnlyWhileAssembled ==
    [][(Len(launches') > Len(launches))
          => (assembled /\ RelIdx = {} /\ StackInPlace)]_vars


\* ---- C38 ----
\* An rmtree of the bundle directory that deletes something of the tree: the
\* directory itself or the files of the upper directory.
BundleTreeDeleted ==
    /\ pc = "unwind" /\ ctx # <<>> /\ Top(ctx) = "bundle"
    /\ (bundle /\ ~bundle') \/ (upper # {} /\ upper' = {})

\* C38: the bundle directory tree is deleted only after every mount made inside
\* it has been unmounted: no step deletes the directory or files of its tree
\* while the squashfs, tmpfs or overlay mount of the session is attached.
C38_BundleDeletedAfterUnmounts ==
    [][BundleTreeDeleted => SessionMounts = {}]_vars


\* ---- C39 ----
\* C39: when snapshot fails on a session with a writable rootfs, the caller
\* receives a snapshot error and the file at the output path is the one that
\* was there before the call, unchanged.
C39_FailedSnapshotKeepsOutput ==
    [][(ContainerSession_snapshot /\ ~cfg.readonly_root /\ pc' = "unwind")
         => (exc' = "snapshot_error" /\ outfile' = outfile)]_vars

\* ---- C40 ----
\* C40: every generated runtime specification has root.readonly equal to the
\* readonly_root flag of the container.
C40_RootReadonlyFollowsFlag ==
    config_json # NoConfig => config_json.root.readonly = cfg.readonly_root

=============================================================================
